---- MODULE Spec2Model ----
(***************************************************************************)
(* Model of src/shooter/shooter.js: the light-ray puzzle (geometry         *)
(* utilities, cell classes, trackRays, Game).                              *)
(*                                                                         *)
(* JavaScript numbers are modelled by exact values (a + b*sqrt(2))/d with  *)
(* integers a, b, d, together with NaN, +Infinity and -Infinity.  The      *)
(* field Q(sqrt 2) holds every value the code computes for axis-aligned    *)
(* and diagonal rays and for mirrors turned by multiples of 45 degrees;    *)
(* arithmetic is exact, so floating-point rounding is not modelled.        *)
(* Angles in radians are kept as their coefficient of pi.                  *)
(***************************************************************************)
EXTENDS Integers, Sequences, FiniteSets, TLC

(***************************************************************************)
(* Numbers                                                                 *)
(***************************************************************************)
IAbs(n) == IF n < 0 THEN -n ELSE n

RECURSIVE GCD(_, _)
GCD(m, n) == IF n = 0 THEN m ELSE GCD(n, m % n)

\* The finite number (a + b*sqrt(2))/d in lowest terms, d > 0: Lowest divides
\* by g, the greatest common divisor with the sign of d.
Lowest(a, b, d, g) == <<"fin", a \div g, b \div g, d \div g>>
Fin(a, b, d) ==
  Lowest(a, b, d,
         (IF d < 0 THEN -1 ELSE 1) * GCD(GCD(IAbs(a), IAbs(b)), IAbs(d)))

R(n, d) == Fin(n, 0, d)
N(n) == <<"fin", n, 0, 1>>
NaN == <<"nan", 0, 0, 1>>
Inf == <<"inf", 0, 0, 1>>
NegInf == <<"ninf", 0, 0, 1>>
Undef == <<"undef", 0, 0, 1>>

IsFin(x) == x[1] = "fin"
\* undefined converts to NaN in arithmetic
IsNaN(x) == x[1] \in {"nan", "undef"}

\* Sign (-1, 0, 1) of a finite number: the sign of a + b*sqrt(2).
SgnFin(x) ==
  IF x[2] >= 0 /\ x[3] >= 0 THEN (IF x[2] = 0 /\ x[3] = 0 THEN 0 ELSE 1)
  ELSE IF x[2] <= 0 /\ x[3] <= 0 THEN -1
  ELSE IF x[2] > 0 THEN (IF x[2] * x[2] > 2 * x[3] * x[3] THEN 1 ELSE -1)
  ELSE (IF 2 * x[3] * x[3] > x[2] * x[2] THEN 1 ELSE -1)

\* Sign of a number that is not NaN.
Sgn(x) == IF x = Inf THEN 1 ELSE IF x = NegInf THEN -1 ELSE SgnFin(x)

Neg(x) ==
  IF IsNaN(x) THEN NaN
  ELSE IF x = Inf THEN NegInf
  ELSE IF x = NegInf THEN Inf
  ELSE <<"fin", -x[2], -x[3], x[4]>>

Add(x, y) ==
  IF IsNaN(x) \/ IsNaN(y) THEN NaN
  ELSE IF ~IsFin(x) THEN (IF ~IsFin(y) /\ y # x THEN NaN ELSE x)
  ELSE IF ~IsFin(y) THEN y
  ELSE Fin(x[2] * y[4] + y[2] * x[4], x[3] * y[4] + y[3] * x[4], x[4] * y[4])

Sub(x, y) == Add(x, Neg(y))

Mul(x, y) ==
  IF IsNaN(x) \/ IsNaN(y) THEN NaN
  ELSE IF ~IsFin(x) \/ ~IsFin(y)
    THEN (IF Sgn(x) * Sgn(y) = 0 THEN NaN
          ELSE IF Sgn(x) * Sgn(y) > 0 THEN Inf ELSE NegInf)
  ELSE Fin(x[2] * y[2] + 2 * x[3] * y[3], x[2] * y[3] + x[3] * y[2], x[4] * y[4])

\* 1/x for finite x # 0: d*(a - b*sqrt 2)/(a^2 - 2*b^2).
Recip(x) ==
  Fin(x[4] * x[2], -(x[4] * x[3]), x[2] * x[2] - 2 * x[3] * x[3])

Div(x, y) ==
  IF IsNaN(x) \/ IsNaN(y) THEN NaN
  ELSE IF ~IsFin(y) THEN (IF ~IsFin(x) THEN NaN ELSE N(0))
  ELSE IF SgnFin(y) = 0
    THEN (IF Sgn(x) = 0 THEN NaN ELSE IF Sgn(x) > 0 THEN Inf ELSE NegInf)
  ELSE IF ~IsFin(x) THEN (IF Sgn(x) * SgnFin(y) > 0 THEN Inf ELSE NegInf)
  ELSE Mul(x, Recip(y))

\* x < y; every comparison with NaN is false.
Lt(x, y) ==
  IF IsNaN(x) \/ IsNaN(y) THEN FALSE
  ELSE IF x = y THEN FALSE
  ELSE IF x = NegInf \/ y = Inf THEN TRUE
  ELSE IF x = Inf \/ y = NegInf THEN FALSE
  ELSE SgnFin(Sub(x, y)) < 0

Gt(x, y) == Lt(y, x)
Le(x, y) == ~IsNaN(x) /\ ~IsNaN(y) /\ ~Lt(y, x)
Ge(x, y) == Le(y, x)

\* x === y on numbers (NaN differs from everything, itself included).
NumEq(x, y) == ~IsNaN(x) /\ ~IsNaN(y) /\ x = y

\* Math.abs, Math.sign, Math.min, Math.max
MathAbs(x) == IF IsNaN(x) THEN NaN ELSE IF Sgn(x) < 0 THEN Neg(x) ELSE x
MathSign(x) == IF IsNaN(x) THEN NaN ELSE N(Sgn(x))
MathMin(x, y) == IF IsNaN(x) \/ IsNaN(y) THEN NaN ELSE IF Lt(y, x) THEN y ELSE x
MathMax(x, y) == IF IsNaN(x) \/ IsNaN(y) THEN NaN ELSE IF Lt(x, y) THEN y ELSE x

\* Integer square root of a perfect square (no value otherwise).
\* (46340 is the largest integer whose square is a 32-bit integer.)
RootMax(n) == IF n < 46340 THEN n ELSE 46340
ISqrt(n) == CHOOSE r \in 0..RootMax(n) : r * r = n
IsSquare(n) == \E r \in 0..RootMax(n) : r * r = n

\* Math.sqrt on the values the model's rays produce: a rational p/q that is
\* the square of a rational, or twice such a square.  No other finite value
\* has a root in Q(sqrt 2) with one term, and the model gives none.
MathSqrt(x) ==
  IF IsNaN(x) THEN NaN
  ELSE IF x = Inf THEN Inf
  ELSE IF Sgn(x) < 0 THEN NaN
  ELSE IF x[3] = 0 /\ IsSquare(x[2]) /\ IsSquare(x[4])
    THEN Fin(ISqrt(x[2]), 0, ISqrt(x[4]))
  ELSE IF x[3] = 0 /\ IsSquare(2 * x[2]) /\ IsSquare(x[4])
    THEN Fin(0, ISqrt(2 * x[2]), 2 * ISqrt(x[4]))
  ELSE IF x[3] = 0 /\ IsSquare(x[2]) /\ IsSquare(2 * x[4])
    THEN Fin(0, ISqrt(x[2]), ISqrt(2 * x[4]))
  ELSE CHOOSE r \in {} : TRUE
\* Whether Math.sqrt(x) is a value of the model
HasRoot(x) ==
  \/ ~IsFin(x)
  \/ Sgn(x) < 0
  \/ x[3] = 0 /\ IsSquare(x[4]) /\ (IsSquare(x[2]) \/ IsSquare(2 * x[2]))
  \/ x[3] = 0 /\ IsSquare(x[2]) /\ IsSquare(2 * x[4])

\* The comparison of the source with its tolerance 1e-9 ("x < 1e-9"): no
\* value of the model lies in (0, 1e-9].
BelowEps(x) == ~IsNaN(x) /\ Sgn(x) <= 0
\* "x > 1e-9"
AboveEps(x) == ~IsNaN(x) /\ Sgn(x) > 0

\* Math.cos and Math.sin of the angle q*pi, for q a multiple of 1/4.
Octant(q) ==
  IF q[3] = 0 /\ q[4] \in {1, 2, 4}
    THEN (((q[2] * (4 \div q[4])) % 8) + 8) % 8
    ELSE CHOOSE k \in {} : TRUE
MathCos(q) ==
  IF IsNaN(q) \/ ~IsFin(q) THEN NaN
  ELSE CASE Octant(q) = 0 -> N(1)
         [] Octant(q) \in {1, 7} -> Fin(0, 1, 2)
         [] Octant(q) \in {2, 6} -> N(0)
         [] Octant(q) \in {3, 5} -> Fin(0, -1, 2)
         [] Octant(q) = 4 -> N(-1)
MathSin(q) ==
  IF IsNaN(q) \/ ~IsFin(q) THEN NaN
  ELSE CASE Octant(q) \in {0, 4} -> N(0)
         [] Octant(q) \in {1, 3} -> Fin(0, 1, 2)
         [] Octant(q) = 2 -> N(1)
         [] Octant(q) \in {5, 7} -> Fin(0, -1, 2)
         [] Octant(q) = 6 -> N(-1)

(***************************************************************************)
(* Geometry utilities.  A function of the source whose body names          *)
(* intermediate values is written as a chain of operators, each taking the *)
(* values computed so far.                                                 *)
(***************************************************************************)
NullVec == <<Undef, Undef>>

dot(v1, v2) == Add(Mul(v1[1], v2[1]), Mul(v1[2], v2[2]))

\* reflect without the factor 2: the normal component is removed, not flipped
reflectMut(incidentVec, normalVec) ==
  LET d == dot(incidentVec, normalVec)
  IN  <<Sub(incidentVec[1], Mul(d, normalVec[1])),
        Sub(incidentVec[2], Mul(d, normalVec[2]))>>
reflect(incidentVec, normalVec) ==
  LET d == dot(incidentVec, normalVec)
  IN  <<Sub(incidentVec[1], Mul(Mul(N(2), d), normalVec[1])),
        Sub(incidentVec[2], Mul(Mul(N(2), d), normalVec[2]))>>

\* refract returns <<vector, isReflecting>>.  Incident: the function after
\* n_ratio and cos_i are computed; Refracted: after sin_t2 is computed.
\* Refracted with the test "sin_t2 >= 1.0"
RefractedMut(incidentVec, normalVec, n_ratio, cos_i, sin_t2) ==
  IF Ge(sin_t2, N(1))
    THEN <<reflect(incidentVec, normalVec), TRUE>>
    ELSE LET cos_t == MathSqrt(Sub(N(1), sin_t2))
         IN  <<<<Add(Mul(n_ratio, incidentVec[1]),
                     Mul(Sub(Mul(n_ratio, cos_i), cos_t), normalVec[1])),
                 Add(Mul(n_ratio, incidentVec[2]),
                     Mul(Sub(Mul(n_ratio, cos_i), cos_t), normalVec[2]))>>,
               FALSE>>
Refracted(incidentVec, normalVec, n_ratio, cos_i, sin_t2) ==
  IF Gt(sin_t2, N(1))
    THEN <<reflect(incidentVec, normalVec), TRUE>>
    ELSE LET cos_t == MathSqrt(Sub(N(1), sin_t2))
         IN  <<<<Add(Mul(n_ratio, incidentVec[1]),
                     Mul(Sub(Mul(n_ratio, cos_i), cos_t), normalVec[1])),
                 Add(Mul(n_ratio, incidentVec[2]),
                     Mul(Sub(Mul(n_ratio, cos_i), cos_t), normalVec[2]))>>,
               FALSE>>
Incident(incidentVec, normalVec, n_ratio, cos_i) ==
  Refracted(incidentVec, normalVec, n_ratio, cos_i,
            Mul(Mul(n_ratio, n_ratio), Sub(N(1), Mul(cos_i, cos_i))))
refract(incidentVec, normalVec, n1, n2) ==
  Incident(incidentVec, normalVec, Div(n1, n2),
           Neg(dot(normalVec, incidentVec)))

\* getLineSegmentIntersection: the intersection point, or NullVec for null.
\* Intersection: the function after v1, v2 and v3 are computed; PointAt:
\* after t1 and t2 are computed.
PointAt(rayStart, rayDir, t1, t2) ==
  IF Ge(t1, N(0)) /\ Ge(t2, N(0)) /\ Le(t2, N(1))
    THEN <<Add(rayStart[1], Mul(t1, rayDir[1])),
           Add(rayStart[2], Mul(t1, rayDir[2]))>>
    ELSE NullVec
Intersection(rayStart, rayDir, v1, v2, v3) ==
  IF BelowEps(MathAbs(dot(v2, v3))) THEN NullVec
  ELSE PointAt(rayStart, rayDir,
               Div(Sub(Mul(v2[1], v1[2]), Mul(v2[2], v1[1])), dot(v2, v3)),
               Div(dot(v1, v3), dot(v2, v3)))
getLineSegmentIntersection(rayStart, rayDir, p1, p2) ==
  Intersection(rayStart, rayDir,
               <<Sub(rayStart[1], p1[1]), Sub(rayStart[2], p1[2])>>,
               <<Sub(p2[1], p1[1]), Sub(p2[2], p1[2])>>,
               <<Neg(rayDir[2]), rayDir[1]>>)

(***************************************************************************)
(* Cell classes.  A cell object is a record; interact returns the segments,*)
(* the terminate flag and the cell as the call leaves it.                  *)
(***************************************************************************)
ColorUndef == "undefined"
BeamColors == {"yellow", "red", "blue"}

NewCell(type, color, rotation, width) ==
  [type |-> type, color |-> color, rotation |-> rotation, width |-> width,
   receive |-> FALSE]

EmptyCell == NewCell("Empty", ColorUndef, Undef, Undef)
\* constructor(color = "black")
BlockCell(color) ==
  NewCell("Block", IF color = ColorUndef THEN "black" ELSE color, Undef, Undef)
TargetCell == NewCell("Target", "black", Undef, Undef)
FixedMirrorCell == NewCell("FixedMirror", ColorUndef, Undef, Undef)
GlassBlockCell == NewCell("GlassBlock", ColorUndef, Undef, Undef)
\* constructor(rotation = 0)
RotatableMirrorCell(rotation) ==
  NewCell("RotatableMirror", ColorUndef,
          IF rotation = Undef THEN N(0) ELSE rotation, Undef)
\* constructor(rotation = 0, width = Math.PI/16)
CrossCell(rotation, width) ==
  NewCell("Cross", "black", IF rotation = Undef THEN N(0) ELSE rotation,
          IF width = Undef THEN R(1, 16) ELSE width)

Rotatable(cell) == cell.type \in {"Cross", "RotatableMirror"}

Seg(start, direction) == [start |-> start, direction |-> direction]
Result(segments, terminate, cell) ==
  [segments |-> segments, terminate |-> terminate, cell |-> cell]

BaseInteract(cell) == Result(<<>>, FALSE, cell)

BlockInteractMut(cell, start, direction, color) ==
  IF color # cell.color THEN Result(<<>>, FALSE, cell)
  ELSE Result(<<Seg(start, direction)>>, TRUE, cell)
BlockInteract(cell, start, direction, color) ==
  IF color = cell.color THEN Result(<<>>, FALSE, cell)
  ELSE Result(<<Seg(start, direction)>>, TRUE, cell)

TargetInteractMut(cell, start, direction) ==
  Result(<<Seg(start, direction)>>, TRUE, cell)
TargetInteract(cell, start, direction) ==
  Result(<<Seg(start, direction)>>, TRUE, [cell EXCEPT !.receive = TRUE])

FixedMirrorInteractMut(cell, start, direction, norm) ==
  Result(<<Seg(start, reflect(direction, norm))>>, TRUE, cell)
FixedMirrorInteract(cell, start, direction, norm) ==
  Result(<<Seg(start, reflect(direction, norm))>>, FALSE, cell)

\* RotatableMirrorCell.interact.  Normalized: normalVec / len; Facing: the
\* normal turned against the ray; MirrorReflect: the part of the method after
\* the intersection is computed, n0 being the normal before it is normalized;
\* MirrorHit: the part after the end points p1, p2 are computed.
Normalized(v, len) == <<Div(v[1], len), Div(v[2], len)>>
Facing(direction, normalVec) ==
  IF Gt(dot(direction, normalVec), N(0))
    THEN <<Mul(normalVec[1], N(-1)), Mul(normalVec[2], N(-1))>>
    ELSE normalVec
\* MirrorReflect with the ray sent back where it came from
MirrorReflectMut(cell, direction, intersection, n0) ==
  IF intersection # NullVec
    THEN Result(<<Seg(intersection, <<Neg(direction[1]), Neg(direction[2])>>)>>,
                FALSE, cell)
    ELSE Result(<<>>, FALSE, cell)
MirrorReflect(cell, direction, intersection, n0) ==
  IF intersection # NullVec
    THEN Result(
           <<Seg(intersection,
                 reflect(direction,
                         Facing(direction,
                                Normalized(n0,
                                  MathSqrt(Add(Mul(n0[1], n0[1]),
                                               Mul(n0[2], n0[2])))))))>>,
           FALSE, cell)
    ELSE Result(<<>>, FALSE, cell)
MirrorHit(cell, pos, direction, p1, p2) ==
  MirrorReflect(cell, direction,
                getLineSegmentIntersection(pos, direction, p1, p2),
                <<Neg(Sub(p2[2], p1[2])), Sub(p2[1], p1[1])>>)
RotatableMirrorInteract(cell, pos, direction) ==
  MirrorHit(cell, pos, direction,
            <<Mul(R(-1, 2), MathCos(cell.rotation)),
              Mul(R(-1, 2), MathSin(cell.rotation))>>,
            <<Mul(R(1, 2), MathCos(cell.rotation)),
              Mul(R(1, 2), MathSin(cell.rotation))>>)

\* refractiveIndices[color] of the default table
RefractiveIndex(color) ==
  CASE color = "red" -> R(3, 2)
    [] color = "yellow" -> R(8, 5)
    [] color = "blue" -> N(2)
    [] OTHER -> Undef

GlassMaxBounces == 100

\* GlassBlockCell.interact.  GlassFaceTime: t_x or t_y; GlassExit: one pass of
\* the exit-face loop, <<exitPoint, exitDirection, exitReflecting>>.
GlassFaceTime(p, d) ==
  IF ~NumEq(d, N(0))
    THEN Div(Sub(IF Gt(d, N(0)) THEN R(1, 2) ELSE R(-1, 2), p), d)
    ELSE Inf
GlassExitAt(pos, dir, n2, t_x, t_exit) ==
  << <<Add(pos[1], Mul(t_exit, dir[1])), Add(pos[2], Mul(t_exit, dir[2]))>> >>
  \o refract(dir,
             IF BelowEps(MathAbs(Sub(t_x, t_exit)))
               THEN <<Neg(MathSign(dir[1])), N(0)>>
               ELSE <<N(0), Neg(MathSign(dir[2]))>>,
             n2, N(1))
GlassExit(pos, dir, n2) ==
  GlassExitAt(pos, dir, n2, GlassFaceTime(pos[1], dir[1]),
              MathMin(GlassFaceTime(pos[1], dir[1]),
                      GlassFaceTime(pos[2], dir[2])))

RECURSIVE GlassLoop(_, _, _, _, _)
RECURSIVE GlassNext(_, _, _, _)
GlassNext(i, path, n2, e) ==
  IF ~e[3] THEN Append(path, Seg(e[1], e[2]))
  ELSE GlassLoop(i + 1, e[1], e[2], Append(path, Seg(e[1], e[2])), n2)
GlassLoop(i, pos, dir, path, n2) ==
  IF i >= GlassMaxBounces THEN path
  ELSE GlassNext(i, path, n2, GlassExit(pos, dir, n2))

GlassEntered(cell, start, n2, entry) ==
  IF entry[2] THEN Result(<<Seg(start, entry[1])>>, FALSE, cell)
  ELSE Result(GlassLoop(0, start, entry[1], <<Seg(start, entry[1])>>, n2),
              FALSE, cell)
GlassBlockInteract(cell, start, direction, norm, color) ==
  GlassEntered(cell, start, RefractiveIndex(color),
               refract(direction, norm, N(1), RefractiveIndex(color)))

(***************************************************************************)
(* CrossCell.interact.  The names of the source are kept for the values    *)
(* it computes; each operator is the part of the method after the values   *)
(* it takes have been computed:                                            *)
(*   CrossTurned  after angle, cos, sin;                                   *)
(*   CrossSolve   after rs, rd;                                            *)
(*   CrossInside  after sin_w, cos_w, b and the discriminant;              *)
(*   CrossPassed  after h1 and h2, inside "if (discriminant >= 0)";        *)
(*   CrossHit     after rh.                                                *)
(* CrossBar is the test -0.5*sin_w < x && x < 0.5*sin_w, valid_t the two   *)
(* pushes of one "if (Math.abs(rd[k]) > 1e-9)" block (p, dp: the           *)
(* coordinate tested; q, dq: the other one), t_hit is Math.min(...).       *)
(***************************************************************************)
CrossBarMut(x, sin_w) ==
  Le(Mul(R(-1, 2), sin_w), x) /\ Le(x, Mul(R(1, 2), sin_w))
CrossBar(x, sin_w) ==
  Lt(Mul(R(-1, 2), sin_w), x) /\ Lt(x, Mul(R(1, 2), sin_w))
CrossPush(t, other, sin_w, cos_w) ==
  IF AboveEps(t) /\ Le(MathAbs(other), Mul(R(1, 2), cos_w))
     /\ Ge(MathAbs(other), Mul(R(1, 2), sin_w))
    THEN <<t>> ELSE <<>>
valid_t(p, dp, q, dq, sin_w, cos_w) ==
  IF AboveEps(MathAbs(dp))
    THEN CrossPush(Div(Sub(Mul(R(1, 2), sin_w), p), dp),
                   Add(q, Mul(Div(Sub(Mul(R(1, 2), sin_w), p), dp), dq)),
                   sin_w, cos_w)
         \o CrossPush(Div(Sub(Mul(R(-1, 2), sin_w), p), dp),
                      Add(q, Mul(Div(Sub(Mul(R(-1, 2), sin_w), p), dp), dq)),
                      sin_w, cos_w)
    ELSE <<>>
valid_ts(rs, rd, sin_w, cos_w) ==
  valid_t(rs[1], rd[1], rs[2], rd[2], sin_w, cos_w)
    \o valid_t(rs[2], rd[2], rs[1], rd[1], sin_w, cos_w)
RECURSIVE t_hit(_)
t_hit(ts) == IF ts = <<>> THEN Inf ELSE MathMin(Head(ts), t_hit(Tail(ts)))
CrossAt(rs, rd, t) == <<Add(rs[1], Mul(t, rd[1])), Add(rs[2], Mul(t, rd[2]))>>
CrossHit(cell, direction, rh, cos, sin) ==
  Result(<<Seg(<<Sub(Mul(rh[1], cos), Mul(rh[2], sin)),
                 Add(Mul(rh[1], sin), Mul(rh[2], cos))>>, direction)>>,
         TRUE, cell)
CrossPassed(cell, direction, rs, rd, sin_w, cos_w, h1, h2, cos, sin) ==
  IF CrossBar(h1[1], sin_w) /\ CrossBar(h2[1], sin_w)
    THEN Result(<<>>, FALSE, cell)
  ELSE IF CrossBar(h1[2], sin_w) /\ CrossBar(h2[2], sin_w)
    THEN Result(<<>>, FALSE, cell)
  ELSE IF CrossBar(h1[1], sin_w) \/ CrossBar(h1[2], sin_w)
    THEN CrossHit(cell, direction,
                  CrossAt(rs, rd, t_hit(valid_ts(rs, rd, sin_w, cos_w))),
                  cos, sin)
  ELSE CrossHit(cell, direction, h1, cos, sin)
CrossInside(cell, start, direction, rs, rd, sin_w, cos_w, b, discriminant, cos, sin) ==
  IF Ge(discriminant, N(0))
    THEN CrossPassed(cell, direction, rs, rd, sin_w, cos_w,
                     CrossAt(rs, rd, Sub(Neg(b), MathSqrt(discriminant))),
                     CrossAt(rs, rd, Add(Neg(b), MathSqrt(discriminant))),
                     cos, sin)
    ELSE Result(<<Seg(start, direction)>>, TRUE, cell)
CrossSolve(cell, start, direction, rs, rd, cos, sin) ==
  CrossInside(cell, start, direction, rs, rd,
              MathSin(cell.width), MathCos(cell.width), dot(rs, rd),
              Sub(Mul(dot(rs, rd), dot(rs, rd)), Sub(dot(rs, rs), R(1, 4))),
              cos, sin)
CrossTurned(cell, start, direction, cos, sin) ==
  CrossSolve(cell, start, direction,
             <<Sub(Mul(start[1], cos), Mul(start[2], Neg(sin))),
               Add(Mul(start[1], Neg(sin)), Mul(start[2], cos))>>,
             <<Sub(Mul(direction[1], cos), Mul(direction[2], Neg(sin))),
               Add(Mul(direction[1], Neg(sin)), Mul(direction[2], cos))>>,
             cos, sin)
perpendicular_dist(start, direction) ==
  Sub(Mul(start[1], direction[2]), Mul(start[2], direction[1]))
CrossInteract(cell, start, direction) ==
  IF Gt(MathAbs(perpendicular_dist(start, direction)), R(1, 2))
    THEN Result(<<>>, FALSE, cell)
    ELSE CrossTurned(cell, start, direction, MathCos(cell.rotation),
                     MathSin(cell.rotation))

\* The call cell.interact(start, direction, normal, color) of trackRays,
\* dispatched on the class of the cell.
Interact(cell, start, direction, normal, color) ==
  CASE cell.type = "Empty" -> BaseInteract(cell)
    [] cell.type = "Block" -> BlockInteract(cell, start, direction, color)
    [] cell.type = "Target" -> TargetInteract(cell, start, direction)
    [] cell.type = "FixedMirror" ->
         FixedMirrorInteract(cell, start, direction, normal)
    [] cell.type = "RotatableMirror" ->
         RotatableMirrorInteract(cell, start, direction)
    [] cell.type = "GlassBlock" ->
         GlassBlockInteract(cell, start, direction, normal, color)
    [] cell.type = "Cross" -> CrossInteract(cell, start, direction)

(***************************************************************************)
(* trackRays.  A grid is a sequence of rows, each a sequence of cells; the *)
(* cell grid[cy][cx] of the source is grid[cy + 1][cx + 1] here.  A beam   *)
(* is [start, direction, cell, color, path].                               *)
(***************************************************************************)
MAX_INTERACTIONS == 100

GridWidth(grid) == Len(grid[1])
GridHeight(grid) == Len(grid)

IsIndex(v, n) == IsFin(v) /\ v[3] = 0 /\ v[4] = 1 /\ v[2] >= 0 /\ v[2] < n
\* grid[cy][cx] is a cell (anything else makes cell.interact throw)
HasCell(grid, cx, cy) ==
  IsIndex(cy, GridHeight(grid)) /\ IsIndex(cx, GridWidth(grid))
CellAt(grid, cx, cy) == grid[cy[2] + 1][cx[2] + 1]

\* The loop variables of one beam, as set before the while loop; calls
\* counts the calls of cell.interact (history, read by no step).
BeamStart(beam) ==
  [sx |-> beam.start[1], sy |-> beam.start[2],
   dx |-> beam.direction[1], dy |-> beam.direction[2],
   cx |-> beam.cell[1], cy |-> beam.cell[2],
   x |-> beam.start[1], y |-> beam.start[2],
   path |-> <<beam.start>>, normal |-> <<N(0), N(1)>>,
   interactionCount |-> 0, calls |-> 0, status |-> "loop"]

\* for (s of segments) { ... }
RECURSIVE ApplySegments(_, _)
ApplySegments(st, segments) ==
  IF segments = <<>> THEN st
  ELSE LET sx == Add(Add(Head(segments).start[1], st.cx), R(1, 2))
           sy == Add(Add(Head(segments).start[2], st.cy), R(1, 2))
       IN  ApplySegments(
             [st EXCEPT !.sx = sx, !.sy = sy,
                        !.path = Append(@, <<sx, sy>>),
                        !.dx = Head(segments).direction[1],
                        !.dy = Head(segments).direction[2],
                        !.interactionCount = @ + 1],
             Tail(segments))

\* The step to the next cell boundary, after the segments are applied.
\* BoundaryTime: t_vertical or t_horizontal; Moved: the loop variables after
\* the step; Arrive: the test that the ray has left the grid.
BoundaryTime(c, s, d) ==
  IF ~NumEq(d, N(0))
    THEN Div(Sub(IF Gt(d, N(0)) THEN Add(c, N(1)) ELSE c, s), d)
    ELSE Inf
ArriveMut(grid, moved) ==
  IF Lt(moved.cx, N(0)) \/ Ge(moved.cx, N(GridWidth(grid)))
     \/ Lt(moved.cy, N(0)) \/ Ge(moved.cy, N(GridHeight(grid)))
    THEN [moved EXCEPT !.path = Append(@, <<moved.x, moved.y>>),
                       !.status = "exit"]
    ELSE [moved EXCEPT !.path = Append(@, <<moved.x, moved.y>>)]
Arrive(grid, moved) ==
  IF Lt(moved.cx, N(0)) \/ Ge(moved.cx, N(GridWidth(grid)))
     \/ Lt(moved.cy, N(0)) \/ Ge(moved.cy, N(GridHeight(grid)))
    THEN [moved EXCEPT !.path = Append(@, <<moved.x, moved.y>>),
                       !.status = "exit"]
    ELSE moved
Moved(st, isVerticalHit, t) ==
  [st EXCEPT
     !.cx = IF isVerticalHit THEN Add(st.cx, MathSign(st.dx)) ELSE st.cx,
     !.cy = IF isVerticalHit THEN st.cy ELSE Add(st.cy, MathSign(st.dy)),
     !.x = Add(st.sx, Mul(st.dx, t)),
     !.y = Add(st.sy, Mul(st.dy, t)),
     !.normal = IF isVerticalHit THEN <<Neg(MathSign(st.dx)), N(0)>>
                                 ELSE <<N(0), Neg(MathSign(st.dy))>>]
Advance(grid, st) ==
  Arrive(grid,
         Moved(st,
               Lt(BoundaryTime(st.cx, st.sx, st.dx),
                  BoundaryTime(st.cy, st.sy, st.dy)),
               IF Lt(BoundaryTime(st.cx, st.sx, st.dx),
                     BoundaryTime(st.cy, st.sy, st.dy))
                 THEN BoundaryTime(st.cx, st.sx, st.dx)
                 ELSE BoundaryTime(st.cy, st.sy, st.dy)))

\* One test of the while condition and, when it holds, one pass of the loop
\* body.  Returns the loop variables and the grid (a Target met is marked).
\* Interacted: the pass after cell.interact has returned r; Stepped: after
\* the segments are applied.
Stepped(grid2, st2, terminate) ==
  IF terminate
    THEN [st |-> [st2 EXCEPT !.status = "terminate"], grid |-> grid2]
    ELSE [st |-> Advance(grid2, st2), grid |-> grid2]
Interacted(grid, st, r) ==
  Stepped([grid EXCEPT ![st.cy[2] + 1][st.cx[2] + 1] = r.cell],
          ApplySegments([st EXCEPT !.calls = @ + 1], r.segments),
          r.terminate)
BeamIterMut(grid, color, st) ==
  IF ~(st.interactionCount <= MAX_INTERACTIONS)
    THEN [st |-> [st EXCEPT !.status = "budget"], grid |-> grid]
  ELSE IF ~HasCell(grid, st.cx, st.cy)
    THEN [st |-> [st EXCEPT !.status = "threw"], grid |-> grid]
  ELSE Interacted(grid, st,
                  Interact(CellAt(grid, st.cx, st.cy),
                           <<Sub(Sub(st.x, st.cx), R(1, 2)),
                             Sub(Sub(st.y, st.cy), R(1, 2))>>,
                           <<st.dx, st.dy>>, st.normal, color))
BeamIter(grid, color, st) ==
  IF ~(st.interactionCount < MAX_INTERACTIONS)
    THEN [st |-> [st EXCEPT !.status = "budget"], grid |-> grid]
  ELSE IF ~HasCell(grid, st.cx, st.cy)
    THEN [st |-> [st EXCEPT !.status = "threw"], grid |-> grid]
  ELSE Interacted(grid, st,
                  Interact(CellAt(grid, st.cx, st.cy),
                           <<Sub(Sub(st.x, st.cx), R(1, 2)),
                             Sub(Sub(st.y, st.cy), R(1, 2))>>,
                           <<st.dx, st.dy>>, st.normal, color))

\* The while loop of one beam, from the loop variables and grid in n.
RECURSIVE RunBeam(_, _)
RunBeam(color, n) ==
  IF n.st.status # "loop" THEN n
  ELSE RunBeam(color, BeamIter(n.grid, color, n.st))

\* trackRays(grid, beams): the beams with their paths, how each trace ended
\* and how many calls of interact it made, the grid as the call leaves it,
\* and whether the call threw.  Traced: the for loop after the while loop of
\* beam i has ended in r.
RECURSIVE TrackFrom(_, _, _, _, _, _)
RECURSIVE Traced(_, _, _, _, _, _)
Traced(beams, i, done, ends, calls, r) ==
  IF r.st.status = "threw"
    THEN [beams |-> Append(done, [beams[i] EXCEPT !.path = r.st.path]),
          ends |-> Append(ends, "threw"),
          calls |-> Append(calls, r.st.calls),
          grid |-> r.grid, threw |-> TRUE]
    ELSE TrackFrom(r.grid, beams, i + 1,
                   Append(done, [beams[i] EXCEPT !.path = r.st.path]),
                   Append(ends, r.st.status), Append(calls, r.st.calls))
TrackFrom(grid, beams, i, done, ends, calls) ==
  IF i > Len(beams)
    THEN [beams |-> done, ends |-> ends, calls |-> calls, grid |-> grid,
          threw |-> FALSE]
  ELSE Traced(beams, i, done, ends, calls,
              RunBeam(beams[i].color,
                      [st |-> BeamStart(beams[i]), grid |-> grid]))

trackRays(grid, beams) == TrackFrom(grid, beams, 1, <<>>, <<>>, <<>>)

(***************************************************************************)
(* Level data and parseGrid.  A cell spec is [type, color, rotation] with  *)
(* ColorUndef / Undef for a field the level definition omits; rotation is  *)
(* in degrees.                                                             *)
(***************************************************************************)
CellSpec(type, color, rotation) ==
  [type |-> type, color |-> color, rotation |-> rotation]

\* JavaScript truthiness of a number or undefined
Truthy(v) == (IsFin(v) /\ SgnFin(v) # 0) \/ v = Inf \/ v = NegInf

\* rotation/180*Math.PI, as a coefficient of pi
DegToRad(rotation) == Div(rotation, N(180))

\* ParseCell with an unknown type read as a Block
ParseCellMut(cellData) ==
  CASE cellData.type = "Empty" -> EmptyCell
    [] cellData.type = "Block" ->
         BlockCell(IF cellData.color = ColorUndef THEN "black"
                   ELSE cellData.color)
    [] cellData.type = "GlassBlock" -> GlassBlockCell
    [] cellData.type = "Target" -> TargetCell
    [] cellData.type = "FixedMirror" -> FixedMirrorCell
    [] cellData.type = "RotatableMirror" ->
         RotatableMirrorCell(IF Truthy(cellData.rotation)
                               THEN DegToRad(cellData.rotation)
                               ELSE R(1, 4))
    [] cellData.type = "Cross" ->
         CrossCell(IF Truthy(cellData.rotation)
                     THEN DegToRad(cellData.rotation)
                     ELSE N(0), Undef)
    [] OTHER -> BlockCell("black")

ParseCell(cellData) ==
  CASE cellData.type = "Empty" -> EmptyCell
    [] cellData.type = "Block" ->
         BlockCell(IF cellData.color = ColorUndef THEN "black"
                   ELSE cellData.color)
    [] cellData.type = "GlassBlock" -> GlassBlockCell
    [] cellData.type = "Target" -> TargetCell
    [] cellData.type = "FixedMirror" -> FixedMirrorCell
    [] cellData.type = "RotatableMirror" ->
         RotatableMirrorCell(IF Truthy(cellData.rotation)
                               THEN DegToRad(cellData.rotation)
                               ELSE R(1, 4))
    [] cellData.type = "Cross" ->
         CrossCell(IF Truthy(cellData.rotation)
                     THEN DegToRad(cellData.rotation)
                     ELSE N(0), Undef)
    [] OTHER -> EmptyCell

parseGrid(gridData) ==
  [y \in 1..Len(gridData) |->
     [x \in 1..Len(gridData[y]) |-> ParseCell(gridData[y][x])]]

Beam(start, direction, cell, color) ==
  [start |-> start, direction |-> direction, cell |-> cell, color |-> color,
   path |-> <<>>]

(***************************************************************************)
(* The levels of the model: three levels in the format of the levels of    *)
(* the source, on 3x3 grids, so that every ray stays in Q(sqrt 2).         *)
(*   level 0: one beam without color (as in the first levels of the        *)
(*            source), a RotatableMirror at 45 degrees that sends it to    *)
(*            the Target: solved as loaded;                                *)
(*   level 1: two colored beams and two Targets; the yellow beam always    *)
(*            reaches its Target, the red one only when the mirror is      *)
(*            turned from its loaded 90 degrees;                           *)
(*   level 2: no Target.                                                   *)
(***************************************************************************)
cE == CellSpec("Empty", ColorUndef, Undef)
cT == CellSpec("Target", ColorUndef, Undef)
cM(deg) == CellSpec("RotatableMirror", ColorUndef, deg)

TopBeam(col, color) ==
  Beam(<<Add(N(col), R(1, 2)), R(-1, 10)>>, <<N(0), N(1)>>,
       <<N(col), N(0)>>, color)

levels ==
  << [beams |-> <<TopBeam(1, ColorUndef)>>,
      grid |-> << <<cE, cE, cE>>,
                  <<cE, cM(N(45)), cT>>,
                  <<cE, cE, cE>> >>],
     [beams |-> <<TopBeam(0, "yellow"), TopBeam(1, "red")>>,
      grid |-> << <<cE, cE, cE>>,
                  <<cE, cM(N(90)), cT>>,
                  <<cT, cE, cE>> >>],
     [beams |-> <<TopBeam(1, "red")>>,
      grid |-> << <<cE, cE, cE>>,
                  <<cE, cM(Undef), cE>>,
                  <<cE, cE, cE>> >>] >>

\* canvas.width and window.innerHeight of the page
CanvasWidth == N(300)
InnerHeight == N(290)

\* Math.floor of a rational, Math.atan2 (as a coefficient of pi) of an
\* offset along an axis or a diagonal.
MathFloor(v) == IF IsFin(v) /\ v[3] = 0 THEN N(v[2] \div v[4]) ELSE NaN
MathAtan2(dy, dx) ==
  LET sx == Sgn(dx)
      sy == Sgn(dy)
  IN  IF sx # 0 /\ sy # 0 /\ MathAbs(dx) # MathAbs(dy)
        THEN CHOOSE a \in {} : TRUE
      ELSE CASE sy = 0 /\ sx >= 0 -> N(0)
             [] sy = 0 /\ sx < 0 -> N(1)
             [] sy > 0 /\ sx > 0 -> R(1, 4)
             [] sy > 0 /\ sx = 0 -> R(1, 2)
             [] sy > 0 /\ sx < 0 -> R(3, 4)
             [] sy < 0 /\ sx > 0 -> R(-1, 4)
             [] sy < 0 /\ sx = 0 -> R(-1, 2)
             [] sy < 0 /\ sx < 0 -> R(-3, 4)

(***************************************************************************)
(* Game.  The handlers are operators on a record w:                        *)
(*   w.game    the fields of the Game object;                              *)
(*   w.frames  the callbacks given to requestAnimationFrame and not yet    *)
(*             run, in order ("first": the callback of loadLevel,          *)
(*             "loop": gameLoop);                                          *)
(*   w.timers  the due times of the pending setTimeout callbacks of        *)
(*             handleLevelClear;                                           *)
(*   w.hist    what the last calls did (history, read by no handler).      *)
(* A cell object is named by the level it was built for and its place:     *)
(* draggedMirror is such a reference, or NullRef.                          *)
(***************************************************************************)
NullRef == [level |-> -1, x |-> -1, y |-> -1]

\* new Game(canvas)
NewGame ==
  [currentLevelIndex |-> 0, grid |-> <<>>, initBeams |-> <<>>,
   targetCells |-> <<>>, isGameRunning |-> FALSE, isLevelClear |-> FALSE,
   gaugeValue |-> N(0), lastTimestamp |-> N(0), dirty |-> FALSE,
   isDragging |-> FALSE, draggedMirror |-> NullRef,
   draggedMirrorCellPos |-> [x |-> N(0), y |-> N(0)],
   result |-> <<>>, cellSize |-> Undef, gridLevel |-> -1,
   levels |-> levels]

\* ticks: the passes of gameLoop past its first line in the last step;
\* clears: the calls of handleLevelClear since the last loadLevel;
\* spans, spanOver: see gameLoop;
\* threw: the listener of the last step ended with an exception;
\* startOutside: the last step was a drag start outside the grid.
\* traces: the trace passes of the last step; staleWrite: the last step set
\* the rotation of a cell that is not in the grid.
NewHist ==
  [ticks |-> <<>>, clears |-> 0, spans |-> {}, spanOver |-> FALSE,
   traces |-> 0, staleWrite |-> FALSE, threw |-> FALSE,
   startOutside |-> FALSE]

GAUGE_FILL_RATE == R(3, 10)
GAUGE_DECAY_RATE == N(4)
CLEAR_DELAY == N(2500)

\* Game.findTargetCells: the places of the Target cells, row by row.
RECURSIVE TargetsFrom(_, _, _)
TargetsFrom(grid, y, x) ==
  IF y > Len(grid) THEN <<>>
  ELSE IF x > Len(grid[y]) THEN TargetsFrom(grid, y + 1, 1)
  ELSE (IF grid[y][x].type = "Target" THEN <<[x |-> x, y |-> y]>> ELSE <<>>)
       \o TargetsFrom(grid, y, x + 1)
findTargetCells(grid) == TargetsFrom(grid, 1, 1)

\* Game.checkWinCondition
checkWinConditionMut(g) ==
  \A i \in 1..Len(g.targetCells) :
     g.grid[g.targetCells[i].y][g.targetCells[i].x].receive
checkWinCondition(g) ==
  IF Len(g.targetCells) = 0 THEN FALSE
  ELSE LET hitTargets == {i \in 1..Len(g.targetCells) :
                            g.grid[g.targetCells[i].y][g.targetCells[i].x].receive}
       IN  \A i \in 1..Len(g.targetCells) : i \in hitTargets

\* JSON.parse(JSON.stringify(initBeams)): finite numbers and strings are
\* copied, a number that is not finite becomes null, a field that is
\* undefined is left out; the copy shares nothing with the templates.
JsonNum(v) == IF IsFin(v) THEN v ELSE Undef
JsonVec(v) == <<JsonNum(v[1]), JsonNum(v[2])>>
JsonCopy(beams) ==
  [i \in 1..Len(beams) |->
     [start |-> JsonVec(beams[i].start),
      direction |-> JsonVec(beams[i].direction),
      cell |-> JsonVec(beams[i].cell),
      color |-> beams[i].color,
      path |-> <<>>]]

\* target.receive = false for every target
ResetTargets(grid, targetCells) ==
  [y \in 1..Len(grid) |->
     [x \in 1..Len(grid[y]) |->
        IF \E i \in 1..Len(targetCells) :
             targetCells[i].x = x /\ targetCells[i].y = y
          THEN [grid[y][x] EXCEPT !.receive = FALSE]
          ELSE grid[y][x]]]

\* Renderer._drawBeams gives a drawn beam without color the color yellow.
DrawnBeams(beams) ==
  [i \in 1..Len(beams) |->
     IF Len(beams[i].path) < 2 \/ beams[i].color # ColorUndef
       THEN beams[i]
       ELSE [beams[i] EXCEPT !.color = "yellow"]]

\* The grids the levels of the model can be in: a level as parsed, with its
\* mirror turned to a multiple of 45 degrees.
Angles == {R(k, 4) : k \in -3..4}
TurnedGrids(level) ==
  LET grid == parseGrid(level.grid)
  IN  {grid} \cup
      {[y \in 1..Len(grid) |->
          [x \in 1..Len(grid[y]) |->
             IF Rotatable(grid[y][x])
               THEN [grid[y][x] EXCEPT !.rotation = a]
               ELSE grid[y][x]]] : a \in Angles}
\* trackRays on these grids, computed once.
TrackTable ==
  [k \in UNION {{<<grid, JsonCopy(levels[i].beams)>> :
                   grid \in TurnedGrids(levels[i])} : i \in 1..Len(levels)}
     |-> trackRays(k[1], k[2])]
TrackRays(grid, beams) == TrackTable[<<grid, beams>>]

\* Game.updateAndRender; threw: trackRays threw and the call was abandoned.
\* Rendered: the method after trackRays has returned r.
\* Rendered with the cells of the grid left as they were before the trace
RenderedMut(w, r) ==
  IF r.threw
    THEN [w |-> w, threw |-> TRUE]
    ELSE [w |-> [w EXCEPT !.game.result = DrawnBeams(r.beams),
                          !.game.dirty = FALSE,
                          !.hist.traces = @ + 1],
          threw |-> FALSE]
Rendered(w, r) ==
  IF r.threw
    THEN [w |-> [w EXCEPT !.game.grid = r.grid], threw |-> TRUE]
    ELSE [w |-> [w EXCEPT !.game.grid = r.grid,
                          !.game.result = DrawnBeams(r.beams),
                          !.game.dirty = FALSE,
                          !.hist.traces = @ + 1],
          threw |-> FALSE]
\* updateAndRender tracing the beams of the level themselves, not a copy
Aliased(u) == [u EXCEPT !.w.game.initBeams = u.w.game.result]
updateAndRenderMut(w) ==
  IF w.game.dirty
    THEN Aliased(Rendered(w, TrackRays(ResetTargets(w.game.grid,
                                                    w.game.targetCells),
                                       JsonCopy(w.game.initBeams))))
    ELSE [w |-> [w EXCEPT !.game.result = DrawnBeams(@),
                          !.game.dirty = FALSE],
          threw |-> FALSE]
updateAndRender(w) ==
  IF w.game.dirty
    THEN Rendered(w, TrackRays(ResetTargets(w.game.grid, w.game.targetCells),
                               JsonCopy(w.game.initBeams)))
    ELSE [w |-> [w EXCEPT !.game.result = DrawnBeams(@),
                          !.game.dirty = FALSE],
          threw |-> FALSE]

requestAnimationFrame(w, callback) ==
  [w EXCEPT !.frames = Append(@, callback)]

\* Game.handleLevelClear, called at time now.  Scheduled: the method after
\* its updateAndRender has returned u.
Scheduled(u, now) ==
  IF u.threw THEN u
  ELSE [w |-> [u.w EXCEPT !.timers = @ \cup {Add(now, CLEAR_DELAY)}],
        threw |-> FALSE]
handleLevelClearMut(w, now) ==
  Scheduled(updateAndRender([w EXCEPT !.game.isGameRunning = FALSE,
                                      !.hist.clears = @ + 1]), now)
handleLevelClear(w, now) ==
  Scheduled(updateAndRender([w EXCEPT !.game.isLevelClear = TRUE,
                                      !.game.isGameRunning = FALSE,
                                      !.hist.clears = @ + 1]), now)

\* The gauge after a tick.
NextGaugeMut(gaugeValue, allTargetsHit, deltaTime) ==
  IF allTargetsHit
    THEN Add(gaugeValue, Mul(GAUGE_FILL_RATE, Div(deltaTime, N(1000))))
    ELSE Sub(gaugeValue, Mul(GAUGE_DECAY_RATE, Div(deltaTime, N(1000))))
NextGaugeSlow(gaugeValue, allTargetsHit, deltaTime) ==
  IF allTargetsHit
    THEN MathMin(Add(gaugeValue,
                     Mul(GAUGE_FILL_RATE, Div(deltaTime, N(1000)))), N(1))
    ELSE MathMax(N(0), Sub(gaugeValue,
                           Mul(GAUGE_FILL_RATE, Div(deltaTime, N(1000)))))
NextGauge(gaugeValue, allTargetsHit, deltaTime) ==
  IF allTargetsHit
    THEN MathMin(Add(gaugeValue,
                     Mul(GAUGE_FILL_RATE, Div(deltaTime, N(1000)))), N(1))
    ELSE MathMax(N(0), Sub(gaugeValue,
                           Mul(GAUGE_DECAY_RATE, Div(deltaTime, N(1000)))))

\* A span that began at sp.start with the gauge at sp.gauge is, at time t,
\* longer than sp.gauge / GAUGE_DECAY_RATE seconds.
SpanIsOver(sp, t) ==
  Gt(Div(Sub(t, sp.start), N(1000)), Div(sp.gauge, GAUGE_DECAY_RATE))

\* Game.gameLoop(timestamp).
\* Tick: the record of a tick, kept in hist.ticks: what the tick found (the
\* receive flags, dirty, the grid, the Targets and the beam templates) and
\* what it computed.
\* Ticked: the game after the gauge update.  A span begins after each tick,
\* with the gauge as that tick leaves it, and lasts while a receive flag is
\* false at every tick: hist.spans holds the spans that are not yet over,
\* and hist.spanOver tells that one of them is over.
\* Cleared: the method after its updateAndRender has returned u;
\* Requested: after handleLevelClear has returned c.
Tick(g, deltaTime, allTargetsHit) ==
  [deltaTime |-> deltaTime, allTargetsHit |-> allTargetsHit,
   gaugeBefore |-> g.gaugeValue,
   gaugeAfter |-> NextGauge(g.gaugeValue, allTargetsHit, deltaTime),
   flags |-> [i \in 1..Len(g.targetCells) |->
                g.grid[g.targetCells[i].y][g.targetCells[i].x].receive],
   dirty |-> g.dirty, grid |-> g.grid, targetCells |-> g.targetCells,
   initBeams |-> g.initBeams]
Ticked(w, timestamp, tick) ==
  [w EXCEPT !.game.lastTimestamp = timestamp,
            !.game.gaugeValue = tick.gaugeAfter,
            !.hist.ticks = Append(@, tick),
            !.hist.spans =
               {sp \in (IF \E i \in 1..Len(tick.flags) : ~tick.flags[i]
                          THEN @ ELSE {}) : ~SpanIsOver(sp, timestamp)}
               \cup {[start |-> timestamp, gauge |-> tick.gaugeAfter]},
            !.hist.spanOver =
               (\E i \in 1..Len(tick.flags) : ~tick.flags[i])
               /\ (@ \/ \E sp \in w.hist.spans : SpanIsOver(sp, timestamp))]
Requested(c) ==
  IF c.threw THEN c.w ELSE requestAnimationFrame(c.w, "loop")
Cleared(u, timestamp) ==
  IF u.threw THEN u.w
  ELSE IF Ge(u.w.game.gaugeValue, N(1)) /\ ~u.w.game.isLevelClear
    THEN Requested(handleLevelClear(u.w, timestamp))
  ELSE requestAnimationFrame(u.w, "loop")
gameLoop(w, timestamp) ==
  IF ~w.game.isGameRunning THEN w
  ELSE Cleared(
         updateAndRender(
           Ticked(w, timestamp,
                  Tick(w.game, Sub(timestamp, w.game.lastTimestamp),
                       checkWinCondition(w.game)))),
         timestamp)

\* Game.loadLevel(level); the grids of the model are never empty, so the
\* try block does not throw.
loadLevel(w, level) ==
  requestAnimationFrame(
    [w EXCEPT !.game.isLevelClear = FALSE,
              !.game.gaugeValue = N(0),
              !.game.initBeams = level.beams,
              !.game.grid = parseGrid(level.grid),
              !.game.gridLevel = w.game.currentLevelIndex,
              !.game.targetCells = findTargetCells(parseGrid(level.grid)),
              !.game.cellSize =
                 MathMin(Div(CanvasWidth, N(Len(level.grid[1]))),
                         Div(Sub(InnerHeight, N(50)), N(Len(level.grid)))),
              !.game.isGameRunning = TRUE,
              !.game.dirty = TRUE,
              !.hist.clears = 0,
              !.hist.spans = {},
              !.hist.spanOver = FALSE],
    "first")

\* Game.start
start(w) == loadLevel(w, w.game.levels[w.game.currentLevelIndex + 1])

\* The callback of a frame: the arrow function of loadLevel, or gameLoop.
FrameCallback(w, callback, timestamp) ==
  gameLoop(IF callback = "first"
             THEN [w EXCEPT !.game.lastTimestamp = timestamp]
             ELSE w,
           timestamp)

\* The callback of the setTimeout of handleLevelClear.
\* ClearTimeout with the level loaded again instead of the next one
ClearTimeoutMut(w) ==
  IF w.game.currentLevelIndex + 1 < Len(w.game.levels)
    THEN [start(w) EXCEPT !.game.currentLevelIndex = @ + 1]
    ELSE [w EXCEPT !.game.currentLevelIndex = @ + 1]
ClearTimeout(w) ==
  IF w.game.currentLevelIndex + 1 < Len(w.game.levels)
    THEN start([w EXCEPT !.game.currentLevelIndex = @ + 1])
    ELSE [w EXCEPT !.game.currentLevelIndex = @ + 1]

\* Game.handleDragMove(x, y).  Turned: the write of the angle; the dragged
\* mirror is an object, and when the grid it belongs to has been replaced
\* the write does not reach the grid.
Turned(w, angle) ==
  IF w.game.draggedMirror.level = w.game.gridLevel
    THEN [w EXCEPT !.game.grid[w.game.draggedMirror.y]
                              [w.game.draggedMirror.x].rotation = angle]
    ELSE [w EXCEPT !.hist.staleWrite = TRUE]
handleDragMoveMut(w, x, y) ==
  IF w.game.draggedMirror = NullRef THEN [w |-> w, threw |-> FALSE]
  ELSE updateAndRender(
         Turned(w, MathAtan2(
                     Sub(y, Mul(Add(w.game.draggedMirrorCellPos.y, R(1, 2)),
                                w.game.cellSize)),
                     Sub(x, Mul(Add(w.game.draggedMirrorCellPos.x, R(1, 2)),
                                w.game.cellSize)))))
handleDragMove(w, x, y) ==
  IF w.game.draggedMirror = NullRef THEN [w |-> w, threw |-> FALSE]
  ELSE updateAndRender(
         [Turned(w, MathAtan2(
                      Sub(y, Mul(Add(w.game.draggedMirrorCellPos.y, R(1, 2)),
                                 w.game.cellSize)),
                      Sub(x, Mul(Add(w.game.draggedMirrorCellPos.x, R(1, 2)),
                                 w.game.cellSize))))
            EXCEPT !.game.dirty = TRUE])

\* Game.handleDragStart(x, y); threw: grid[gridY][gridX] is undefined and
\* reading its rotatable property threw.  DragStartAt: the method after
\* gridX and gridY are computed.
DragStartAt(w, x, y, gridX, gridY) ==
  IF ~IsIndex(gridY, Len(w.game.grid)) THEN [w |-> w, threw |-> FALSE]
  ELSE IF ~IsIndex(gridX, Len(w.game.grid[gridY[2] + 1]))
    THEN [w |-> w, threw |-> TRUE]
  ELSE IF Rotatable(w.game.grid[gridY[2] + 1][gridX[2] + 1])
    THEN handleDragMove(
           [w EXCEPT !.game.isDragging = TRUE,
                     !.game.draggedMirror =
                        [level |-> w.game.gridLevel, x |-> gridX[2] + 1,
                         y |-> gridY[2] + 1],
                     !.game.draggedMirrorCellPos =
                        [x |-> gridX, y |-> gridY]],
           x, y)
  ELSE [w |-> w, threw |-> FALSE]
handleDragStart(w, x, y) ==
  DragStartAt(w, x, y, MathFloor(Div(x, w.game.cellSize)),
              MathFloor(Div(y, w.game.cellSize)))

handleDragEnd(w) ==
  IF w.game.isDragging
    THEN [w EXCEPT !.game.isDragging = FALSE, !.game.draggedMirror = NullRef]
    ELSE w

\* The listeners of mousedown, mousemove and mouseup (those of touchstart,
\* touchmove and touchend make the same calls), at canvas position (x, y).
\* Uncaught: an exception of the handler leaves the listener.  OutsideGrid:
\* the position maps to a row or a column that the grid does not have.
Uncaught(r) == [r.w EXCEPT !.hist.threw = r.threw]
OutsideGrid(w, gridX, gridY) ==
  \/ ~IsIndex(gridY, Len(w.game.grid))
  \/ ~IsIndex(gridX, Len(w.game.grid[1]))
OnMouseDown(w, x, y) ==
  IF ~w.game.isGameRunning THEN w
  ELSE [Uncaught(handleDragStart(w, x, y))
          EXCEPT !.hist.startOutside =
                    OutsideGrid(w, MathFloor(Div(x, w.game.cellSize)),
                                MathFloor(Div(y, w.game.cellSize)))]
OnMouseMove(w, x, y) ==
  IF ~w.game.isDragging \/ ~w.game.isGameRunning THEN w
  ELSE Uncaught(handleDragMove(w, x, y))
OnMouseUp(w) == handleDragEnd(w)

\* The callbacks of one animation frame: those pending when the frame
\* starts, in order, all with the timestamp of the frame; what they request
\* waits for a later frame.
RECURSIVE RunCallbacks(_, _, _)
RunCallbacks(w, callbacks, timestamp) ==
  IF callbacks = <<>> THEN w
  ELSE RunCallbacks(FrameCallback(w, Head(callbacks), timestamp),
                    Tail(callbacks), timestamp)

(***************************************************************************)
(* The game in the browser                                                 *)
(***************************************************************************)
VARIABLES
  pc,       \* "constructed" (after new Game) or "started" (after start())
  game,     \* the fields of the Game
  frames,   \* the callbacks requested for the next animation frame
  timers,   \* the times at which the pending timeouts are due
  hist,     \* history: what the last step did, and the spans of the level
  \* one call of trackRays
  tGrid, tBeams, tOut, tDone,
  \* one call of cell.interact
  iCell, iArgs, iOut, iDone,
  \* one call of refract
  rArgs, rOut,
  \* the shooter: player, enemy, bullets, stage script and pending timeouts
  shooter

\* The program reads the clock only through differences of times, so times
\* are measured from the present: after d ms every stored time is d less,
\* the timestamp of a frame is 0, and a timeout is due when its time is <= 0.
gameVars == <<pc, game, frames, timers, hist>>
traceVars == <<tGrid, tBeams, tOut, tDone>>
interactVars == <<iCell, iArgs, iOut, iDone>>
refractVars == <<rArgs, rOut>>
shooterVars == <<shooter>>
vars == <<gameVars, traceVars, interactVars, refractVars, shooterVars>>

World == [game |-> game, frames |-> frames, timers |-> timers,
          hist |-> [hist EXCEPT !.ticks = <<>>, !.traces = 0,
                                !.staleWrite = FALSE, !.threw = FALSE,
                                !.startOutside = FALSE]]

Becomes(w) ==
  \E u \in {w} :
    /\ game' = u.game
    /\ frames' = u.frames
    /\ timers' = u.timers
    /\ hist' = u.hist

Elapse(w, d) ==
  [w EXCEPT !.game.lastTimestamp = Sub(@, d),
            !.timers = {Sub(due, d) : due \in @},
            !.hist.spans = {[sp EXCEPT !.start = Sub(@, d)] : sp \in @}]

Now == N(0)
MaxAge == 5000
FrameDeltas == {N(100), N(1000)}
IdleDeltas == {N(2500)}
\* Canvas positions of the pointer (the cells are 80 wide, the canvas 300):
\* in the mirror cell, right of and below right of its centre; in an Empty
\* cell; right of the grid; below the grid.
Pointers ==
  { <<N(140), N(120)>>, <<N(140), N(140)>>, <<N(40), N(40)>>,
    <<N(280), N(120)>>, <<N(120), N(280)>> }

GameInit ==
  /\ pc = "constructed"
  /\ game = NewGame
  /\ frames = <<>>
  /\ timers = {}
  /\ hist = NewHist

\* window.onload: game.start()
GameStart ==
  /\ pc = "constructed"
  /\ pc' = "started"
  /\ Becomes(start(World))
  /\ UNCHANGED <<traceVars, interactVars, refractVars, shooterVars>>

\* An animation frame d ms after the last step: the callbacks pending when
\* it starts run with its timestamp.
AnimationFrame ==
  /\ frames # <<>>
  /\ \E d \in FrameDeltas :
       Becomes(RunCallbacks([Elapse(World, d) EXCEPT !.frames = <<>>],
                            frames, Now))
  /\ UNCHANGED <<pc, traceVars, interactVars, refractVars, shooterVars>>

\* Time passes without a frame: nothing is requested, or the page is hidden.
TimePasses ==
  /\ pc = "started"
  /\ \E d \in IdleDeltas :
       /\ Ge(Sub(game.lastTimestamp, d), N(0 - MaxAge))
       /\ \A due \in timers : Ge(Sub(due, d), N(0 - MaxAge))
       /\ Becomes(Elapse(World, d))
  /\ UNCHANGED <<pc, traceVars, interactVars, refractVars, shooterVars>>

\* A timeout that is due runs its callback.
TimerFires ==
  /\ \E due \in timers :
       /\ Le(due, Now)
       /\ Becomes(ClearTimeout([World EXCEPT !.timers = @ \ {due}]))
  /\ UNCHANGED <<pc, traceVars, interactVars, refractVars, shooterVars>>

MouseDown ==
  /\ pc = "started"
  /\ \E p \in Pointers : Becomes(OnMouseDown(World, p[1], p[2]))
  /\ UNCHANGED <<pc, traceVars, interactVars, refractVars, shooterVars>>

MouseMove ==
  /\ pc = "started"
  /\ \E p \in Pointers : Becomes(OnMouseMove(World, p[1], p[2]))
  /\ UNCHANGED <<pc, traceVars, interactVars, refractVars, shooterVars>>

MouseUp ==
  /\ pc = "started"
  /\ Becomes(OnMouseUp(World))
  /\ UNCHANGED <<pc, traceVars, interactVars, refractVars, shooterVars>>

NoTrace == tGrid = <<>> /\ tBeams = <<>> /\ tOut = <<>> /\ tDone = FALSE
NoInteract == iCell = <<>> /\ iArgs = <<>> /\ iOut = <<>> /\ iDone = FALSE
NoRefract == rArgs = <<>> /\ rOut = <<>>
NoShooter == shooter = <<>>

Init == GameInit /\ NoTrace /\ NoInteract /\ NoRefract /\ NoShooter

Next ==
  \/ GameStart
  \/ AnimationFrame
  \/ TimePasses
  \/ TimerFires
  \/ MouseDown
  \/ MouseMove
  \/ MouseUp

Spec == Init /\ [][Next]_vars


(***************************************************************************)
(* One call of trackRays, on a 3x3 grid whose centre column and right      *)
(* centre cell are drawn from the cell types, with beams that enter at the *)
(* top of the centre column or at the left of the centre row or start in   *)
(* the centre cell, with or without a color.                               *)
(***************************************************************************)
cB(color) == CellSpec("Block", color, Undef)
cG == CellSpec("GlassBlock", ColorUndef, Undef)
cF == CellSpec("FixedMirror", ColorUndef, Undef)
TraceCells == {cE, cT, cB("yellow"), cB(ColorUndef), cG, cF, cM(N(45)), cM(N(135))}
TraceGrids ==
  {parseGrid(<< <<cE, a, cE>>, <<cE, b, r>>, <<cE, c, cE>> >>) :
     a \in TraceCells, b \in TraceCells, c \in {cE, cT, cF}, r \in {cE, cT}}
MidBeam(color) ==
  Beam(<<R(3, 2), R(3, 2)>>, <<N(0), N(1)>>, <<N(1), N(1)>>, color)
LeftBeam(color) ==
  Beam(<<R(-1, 10), R(3, 2)>>, <<N(1), N(0)>>, <<N(0), N(1)>>, color)
TraceColors == BeamColors \cup {ColorUndef}
TraceBeams ==
  {<<TopBeam(1, c)>> : c \in TraceColors}
    \cup {<<MidBeam(c)>> : c \in TraceColors}
    \cup {<<LeftBeam(c)>> : c \in TraceColors}
    \cup {<<TopBeam(1, c), LeftBeam(c)>> : c \in TraceColors}

TraceInit ==
  /\ tGrid \in TraceGrids
  /\ tBeams \in {JsonCopy(beams) : beams \in TraceBeams}
  /\ tOut = <<>>
  /\ tDone = FALSE

\* trackRays(tGrid, tBeams)
TraceRays ==
  /\ ~tDone
  /\ tGrid # <<>>
  /\ tOut' = trackRays(tGrid, tBeams)
  /\ tDone' = TRUE
  /\ UNCHANGED <<tGrid, tBeams, gameVars, interactVars, refractVars, shooterVars>>

NoGame ==
  /\ pc = "idle" /\ game = NewGame /\ frames = <<>> /\ timers = {}
  /\ hist = NewHist

InitTrace == NoGame /\ TraceInit /\ NoInteract /\ NoRefract /\ NoShooter
SpecTrace == InitTrace /\ [][TraceRays]_vars

(***************************************************************************)
(* One call of cell.interact, on a Target or a Block as parseGrid builds   *)
(* them.                                                                   *)
(***************************************************************************)
InteractCells ==
  {ParseCell(c) : c \in {cT, cB(ColorUndef), cB("yellow"), cB("red"),
                         cB("blue"), cF}}
    \cup {[ParseCell(cT) EXCEPT !.receive = TRUE]}
EntryPoints ==
  {<<N(0), R(-1, 2)>>, <<R(-1, 2), N(0)>>, <<R(1, 4), R(-1, 2)>>,
   <<N(0), N(0)>>}
Directions ==
  {<<N(0), N(1)>>, <<N(1), N(0)>>, <<N(0), N(-1)>>, <<N(-1), N(0)>>,
   <<Div(N(1), MathSqrt(N(2))), Div(N(-1), MathSqrt(N(2)))>>,
   <<R(-3, 5), R(4, 5)>>, <<N(2), N(-1)>>}
\* the normals trackRays passes: [0, 1] at the start of a beam, then
\* [-Math.sign(dx), 0] or [0, -Math.sign(dy)]
Normals == {<<N(0), N(-1)>>, <<N(-1), N(0)>>, <<N(0), N(1)>>, <<N(1), N(0)>>}

\* Calls on a GlassBlock by a beam along an axis that enters it through a
\* face: the beam comes from the cell before (start on the face, and the normal
\* trackRays computes at a crossing, -Math.sign of the direction) or starts
\* its trace in the cell (start on the face or 0.1 before it, as the beams of
\* the levels, and the normal [0, 1] trackRays starts every beam with).  Of
\* the beams that start in the cell only the vertical ones are taken: a
\* horizontal one is bent to a direction outside Q(sqrt 2).
AxisDirections == {<<N(0), N(1)>>, <<N(1), N(0)>>, <<N(0), N(-1)>>, <<N(-1), N(0)>>}
GlassStarts ==
  {<<u, v>> : u \in {R(-3, 5), R(-1, 2), N(0), R(1, 4), R(1, 2), R(3, 5)},
              v \in {R(-3, 5), R(-1, 2), N(0), R(1, 4), R(1, 2), R(3, 5)}}
EntersFace(a) ==
  /\ dot(a.start, a.direction) \in {R(-1, 2), R(-3, 5)}
  /\ Lt(MathAbs(dot(a.start, <<a.direction[2], a.direction[1]>>)), R(1, 2))
  /\ \/ a.normal = <<Neg(a.direction[1]), Neg(a.direction[2])>>
        /\ dot(a.start, a.direction) = R(-1, 2)
     \/ a.normal = <<N(0), N(1)>> /\ a.direction[1] = N(0)
GlassInputs ==
  {<<ParseCell(cG), a>> :
     a \in {b \in [start : GlassStarts, direction : AxisDirections,
                   normal : Normals, color : BeamColors] : EntersFace(b)}}

\* Calls on a Cross, turned by a multiple of 45 degrees, with the width the
\* constructor gives it (pi/16), the width 0 and the width pi/4, by rays of
\* unit direction.  A Cross of width pi/16 is asked about the rays that miss
\* the circle of radius 0.5 only, the others about these and about the rays
\* whose discriminant has its root in Q(sqrt 2).
CrossRotations == {N(0), R(1, 4), R(1, 2), R(3, 4), N(1), R(-1, 4)}
CrossWidths == {Undef, N(0), R(1, 4)}
CrossCells ==
  {CrossCell(rotation, width) : rotation \in CrossRotations,
                                width \in CrossWidths}
UnitDirections ==
  AxisDirections
    \cup {<<R(-3, 5), R(4, 5)>>,
          <<Div(N(1), MathSqrt(N(2))), Div(N(-1), MathSqrt(N(2)))>>}
CrossStarts ==
  {<<u, v>> : u \in {R(-3, 5), R(-1, 2), R(-3, 10), N(0), R(2, 5), R(1, 2)},
              v \in {R(-3, 5), R(-1, 2), R(-3, 10), N(0), R(2, 5), R(1, 2)}}
CrossRoots == {N(0), R(9, 100), R(1, 8), R(4, 25), R(1, 4)}
CrossCase(cell, a) ==
  \/ Gt(MathAbs(perpendicular_dist(a.start, a.direction)), R(1, 2))
  \/ /\ cell.width \in {N(0), R(1, 4)}
     /\ Sub(R(1, 4), Mul(perpendicular_dist(a.start, a.direction),
                         perpendicular_dist(a.start, a.direction)))
          \in CrossRoots
CrossInputs ==
  {p \in CrossCells \X [start : CrossStarts, direction : UnitDirections,
                        normal : {<<N(0), N(1)>>}, color : {"red"}] :
     CrossCase(p[1], p[2])}

InteractInputs ==
  {<<c, a>> : c \in InteractCells,
              a \in [start : EntryPoints, direction : Directions,
                     normal : Normals, color : TraceColors]}
    \cup GlassInputs \cup CrossInputs

InteractInit ==
  /\ \E p \in InteractInputs : iCell = p[1] /\ iArgs = p[2]
  /\ iOut = <<>>
  /\ iDone = FALSE

\* iCell.interact(start, direction, normal, color)
CellInteract ==
  /\ ~iDone
  /\ iCell # <<>>
  /\ iOut' = Interact(iCell, iArgs.start, iArgs.direction, iArgs.normal,
                      iArgs.color)
  /\ iDone' = TRUE
  /\ UNCHANGED <<iCell, iArgs, gameVars, traceVars, refractVars, shooterVars>>

InitInteract == NoGame /\ NoTrace /\ InteractInit /\ NoRefract /\ NoShooter
SpecInteract == InitInteract /\ [][CellInteract]_vars

(***************************************************************************)
(* The game with the first two levels of the model as its list of levels:  *)
(* its last level has Targets and can be cleared.  A timeout that is due   *)
(* runs, and time does not stop: the two fairness conditions.              *)
(***************************************************************************)
InitShort ==
  /\ pc = "constructed"
  /\ game = [NewGame EXCEPT !.levels = SubSeq(levels, 1, 2)]
  /\ frames = <<>> /\ timers = {} /\ hist = NewHist
  /\ NoTrace /\ NoInteract /\ NoRefract /\ NoShooter
\* A timeout is due: TimerFires can take a step, and the step removes the
\* timeout, so this is ENABLED <<TimerFires>>_vars.
TimerDue == \E due \in timers : Le(due, Now)

\* The clock can advance by an idle delta: ENABLED <<TimePasses>>_vars.
TimeCanPass ==
  /\ pc = "started"
  /\ \E d \in IdleDeltas :
       /\ Ge(Sub(game.lastTimestamp, d), N(0 - MaxAge))
       /\ \A due \in timers : Ge(Sub(due, d), N(0 - MaxAge))

\* The browser runs a due timeout and its clock does not stop: weak fairness
\* of TimerFires and of TimePasses, WF_vars(A) written out as
\* []<>~ENABLED <<A>>_vars \/ []<><<A>>_vars with the enabling conditions above.
SpecShort ==
  /\ InitShort /\ [][Next]_vars
  /\ ([]<>~TimerDue \/ []<><<TimerFires>>_vars)
  /\ ([]<>~TimeCanPass \/ []<><<TimePasses>>_vars)

(***************************************************************************)
(* One call of refract, with unit vectors: the normal along an axis, the   *)
(* incident vector at an angle to it whose sine and cosine are in          *)
(* Q(sqrt 2) - from along the normal (0 degrees) to grazing (90 degrees),  *)
(* and two with the normal turned along the ray - and indices n1 < n2,     *)
(* n1 = n2 and n1 > n2.  Of these calls the model takes those whose        *)
(* Math.sqrt(1 - sin_t2) is in Q(sqrt 2), or is not computed.              *)
(***************************************************************************)
Indices == {N(1), R(6, 5), R(5, 4), R(3, 2), R(8, 5), N(2), N(3), N(4), N(5)}
Incidents ==
  {<<N(0), N(1)>>, <<R(7, 25), R(24, 25)>>, <<R(3, 5), R(4, 5)>>,
   <<Div(N(1), MathSqrt(N(2))), Div(N(1), MathSqrt(N(2)))>>,
   <<R(4, 5), R(3, 5)>>, <<R(24, 25), R(7, 25)>>, <<N(1), N(0)>>,
   <<R(-4, 5), R(3, 5)>>, <<N(0), N(-1)>>, <<R(3, 5), R(-4, 5)>>}
sin_t2(a) ==
  Mul(Mul(Div(a.n1, a.n2), Div(a.n1, a.n2)),
      Sub(N(1), Mul(Neg(dot(a.normalVec, a.incidentVec)),
                    Neg(dot(a.normalVec, a.incidentVec)))))
RefractCalls ==
  {a \in [incidentVec : Incidents, normalVec : {<<N(0), N(-1)>>},
          n1 : Indices, n2 : Indices] : HasRoot(Sub(N(1), sin_t2(a)))}

RefractInit == rArgs \in RefractCalls /\ rOut = <<>>

\* refract(incidentVec, normalVec, n1, n2)
Refract ==
  /\ rArgs # <<>>
  /\ rOut = <<>>
  /\ rOut' = refract(rArgs.incidentVec, rArgs.normalVec, rArgs.n1, rArgs.n2)
  /\ UNCHANGED <<rArgs, gameVars, traceVars, interactVars, shooterVars>>

InitRefract == NoGame /\ NoTrace /\ NoInteract /\ RefractInit /\ NoShooter
SpecRefract == InitRefract /\ [][Refract]_vars

(***************************************************************************)
(* One call of loadLevel on a new Game, with a level of one row of two     *)
(* cells whose specs have known and unknown types and rotations given in   *)
(* degrees, given as 0, or left out.                                       *)
(***************************************************************************)
LoadTypes ==
  {"Empty", "Block", "GlassBlock", "Target", "FixedMirror",
   "RotatableMirror", "Cross", "Wall", "empty", "undefined"}
LoadRotations == {Undef, N(0), N(45), N(90), N(-45), N(180)}
LoadCells ==
  {CellSpec(type, ColorUndef, rotation) :
     type \in LoadTypes, rotation \in LoadRotations}
LoadLevels ==
  {[beams |-> <<TopBeam(0, "red")>>, grid |-> << <<a, b>> >>] :
     a \in LoadCells,
     b \in LoadCells \cup {CellSpec("Wall", "red", N(30))}}

\* game.loadLevel(level)
LoadLevel ==
  /\ pc = "constructed"
  /\ pc' = "loaded"
  /\ \E level \in LoadLevels : Becomes(loadLevel(World, level))
  /\ UNCHANGED <<traceVars, interactVars, refractVars, shooterVars>>

SpecLoad == Init /\ [][LoadLevel]_vars

(***************************************************************************)
(* The shooter, the first part of shooter.js: a player, an enemy with a    *)
(* barrier, the bullets and the stage script.  Positions and sizes are in  *)
(* thousandths of the canvas, times in ms.  The deltas and the script of   *)
(* the model keep every position a whole number of thousandths.            *)
(***************************************************************************)
\* canvas.width / canvas.height of a square window
aspect == 1
\* The stage scripts, one line per command: the command and its arguments
\* as loadStage splits them and the commands parse them.
stages ==
  << << <<"ENEMY_HP", 20>>, <<"WAIT", 500>>, <<"BARRIER", 1000, 1000>>,
        <<"MOVE", 1000, 500, 250>> >> >>

\* The state of the script before loadStage.  timeouts: the pending
\* setTimeout callbacks, in the order they were set, with the time left;
\* moved: the bullets after the first loop of the last update.
NewShooter ==
  [player |-> [x |-> 500, y |-> 850, hp |-> 50, maxHp |-> 50, size |-> 30],
   enemy |-> [x |-> 500, y |-> 150, size |-> 80, hp |-> 100, maxHp |-> 100,
              barrierState |-> "none", barrierTimer |-> 0,
              barrierPredictTime |-> 0, barrierActiveTime |-> 0,
              barrierProgress |-> 0, barrierSound |-> FALSE,
              moveTimer |-> 0, moveTo |-> [x |-> 0, y |-> 0],
              moveFrom |-> [x |-> 0, y |-> 0], moveProgress |-> 0],
   bullets |-> <<>>,
   game |-> [stage |-> 0, isStageClear |-> FALSE],
   stageScript |-> <<>>, scriptPointer |-> 0, waitTimer |-> 0,
   executing |-> "",
   timeouts |-> <<>>,
   moved |-> <<>>]

\* stageCommands[command](args), without the call of executeNextCommand at
\* the end of ENEMY_HP
Command(s, line) ==
  CASE line[1] = "ENEMY_HP" ->
         [s EXCEPT !.enemy.maxHp = line[2], !.enemy.hp = line[2]]
    [] line[1] = "WAIT" -> [s EXCEPT !.waitTimer = line[2]]
    [] line[1] = "MOVE" ->
         [s EXCEPT !.enemy.moveTimer = line[2],
                   !.enemy.moveTo = [x |-> line[3], y |-> line[4]],
                   !.enemy.moveFrom = [x |-> s.enemy.x, y |-> s.enemy.y],
                   !.enemy.moveProgress = 0]
    [] line[1] = "BARRIER" ->
         [s EXCEPT !.enemy.barrierPredictTime = line[2],
                   !.enemy.barrierActiveTime = line[3],
                   !.enemy.barrierTimer = line[2],
                   !.enemy.barrierProgress = 0,
                   !.enemy.barrierState = "preparing",
                   !.enemy.barrierSound = FALSE]
    [] OTHER -> s

\* executeNextCommand; Pointed: the pointer after its first line.
Pointed(s) ==
  IF s.scriptPointer >= Len(s.stageScript) THEN 1 ELSE s.scriptPointer
RECURSIVE executeNextCommand(_)
executeNextCommand(s) ==
  IF s.stageScript[Pointed(s) + 1][1] = "ENEMY_HP"
    THEN executeNextCommand(
           Command([s EXCEPT !.scriptPointer = Pointed(s) + 1,
                             !.executing = "ENEMY_HP"],
                   s.stageScript[Pointed(s) + 1]))
    ELSE Command([s EXCEPT !.scriptPointer = Pointed(s) + 1,
                           !.executing = s.stageScript[Pointed(s) + 1][1]],
                 s.stageScript[Pointed(s) + 1])

\* loadStage(stageNum)
loadStage(s, stageNum) ==
  executeNextCommand(
    [s EXCEPT !.stageScript = stages[stageNum + 1],
              !.scriptPointer = 0,
              !.game.isStageClear = FALSE,
              !.enemy.hp = s.enemy.maxHp,
              !.bullets = <<>>,
              !.player.hp = s.player.maxHp])

\* update: the WAIT block
Waited(s, deltaTime) ==
  IF s.executing # "WAIT" THEN s
  ELSE IF s.waitTimer > 0 THEN [s EXCEPT !.waitTimer = @ - deltaTime]
  ELSE executeNextCommand(s)

\* update: the MOVE block.  Eased: (1 - t) * from + t * to for
\* t = 1 - (1 - min(1, moveProgress / moveTimer))^2, as one fraction over
\* moveTimer^2; Left: moveTimer - min(moveTimer, moveProgress).
Left(e) ==
  IF e.moveProgress >= e.moveTimer THEN 0 ELSE e.moveTimer - e.moveProgress
Eased(e, from, to) ==
  ((e.moveTimer * e.moveTimer - Left(e) * Left(e)) * to
     + Left(e) * Left(e) * from) \div (e.moveTimer * e.moveTimer)
Placed(s) ==
  [s EXCEPT !.enemy.x = Eased(s.enemy, s.enemy.moveFrom.x, s.enemy.moveTo.x),
            !.enemy.y = Eased(s.enemy, s.enemy.moveFrom.y, s.enemy.moveTo.y)]
MoveEnded(s) ==
  IF s.enemy.moveProgress >= s.enemy.moveTimer
    THEN executeNextCommand(s) ELSE s
EnemyMoved(s, deltaTime) ==
  IF s.executing # "MOVE" THEN s
  ELSE MoveEnded(Placed([s EXCEPT !.enemy.moveProgress = @ + deltaTime]))

\* update: the BARRIER block
Sounded(s) ==
  IF s.enemy.barrierState = "preparing"
     /\ s.enemy.barrierTimer - s.enemy.barrierProgress < 1
     /\ ~s.enemy.barrierSound
    THEN [s EXCEPT !.enemy.barrierSound = TRUE] ELSE s
Activated(s) ==
  IF s.enemy.barrierState = "preparing"
     /\ s.enemy.barrierProgress >= s.enemy.barrierTimer
    THEN [s EXCEPT !.enemy.barrierState = "active",
                   !.enemy.barrierTimer = s.enemy.barrierActiveTime,
                   !.enemy.barrierProgress = 0]
    ELSE s
Deactivated(s) ==
  IF s.enemy.barrierState = "active"
     /\ s.enemy.barrierProgress >= s.enemy.barrierTimer
    THEN executeNextCommand(
           [s EXCEPT !.enemy.barrierState = "none",
                     !.enemy.barrierTimer = 0,
                     !.enemy.barrierProgress = 0])
    ELSE s
Barriered(s, deltaTime) ==
  IF s.executing # "BARRIER" THEN s
  ELSE Deactivated(Activated(Sounded(
         [s EXCEPT !.enemy.barrierProgress = @ + deltaTime])))

\* Array.prototype.splice(i, 1)
Splice(seq, i) == SubSeq(seq, 1, i) \o SubSeq(seq, i + 2, Len(seq))

\* Math.sqrt(dx * dx + dy * dy) < r, for r > 0
Within(dx, dy, r) == dx * dx + dy * dy < r * r

\* update: the first bullets.forEach: the callback at index k, when the
\* array still has an element there; forEach visits the indices below the
\* length the array had when the loop started.
RECURSIVE MoveBullets(_, _, _)
MoveBullets(bullets, k, len) ==
  IF k >= len THEN bullets
  ELSE IF k >= Len(bullets) THEN MoveBullets(bullets, k + 1, len)
  ELSE IF bullets[k + 1].y + bullets[k + 1].vy < 0
          \/ bullets[k + 1].y + bullets[k + 1].vy > 1000
    THEN MoveBullets(Splice(bullets, k), k + 1, len)
  ELSE MoveBullets([bullets EXCEPT ![k + 1].y = @ + bullets[k + 1].vy],
               k + 1, len)

\* update: the second bullets.forEach, on the enemy
NearEnemy(s, b, margin) ==
  Within((b.x - s.enemy.x) * aspect, b.y - s.enemy.y,
         s.enemy.size + b.size + margin)
\* EnemyHit with the barrier left out of the test of a hit
EnemyHitMut(s, b) == NearEnemy(s, b, 0)
EnemyHit(s, b) == s.enemy.barrierState # "active" /\ NearEnemy(s, b, 0)
\* Reflects with a barrier that lets the bullets through
ReflectsMut(s, b) == FALSE
Reflects(s, b) ==
  s.enemy.barrierState = "active" /\ NearEnemy(s, b, 40) /\ b.vy < 0
Downed(s) ==
  IF s.enemy.hp <= 0
    THEN [s EXCEPT !.game.isStageClear = TRUE,
                   !.timeouts = Append(@, [callback |-> "next",
                                           due |-> 2000])]
    ELSE s
RECURSIVE Strike(_, _, _)
Strike(s, k, len) ==
  IF k >= len THEN s
  ELSE IF k >= Len(s.bullets) THEN Strike(s, k + 1, len)
  ELSE IF Reflects(s, s.bullets[k + 1])
    THEN Strike([s EXCEPT !.bullets[k + 1].vy = 0 - @], k + 1, len)
  ELSE IF EnemyHit(s, s.bullets[k + 1])
    THEN Strike(Downed([s EXCEPT !.enemy.hp = @ - 10,
                                 !.bullets = Splice(@, k)]),
                k + 1, len)
  ELSE Strike(s, k + 1, len)

\* update: the third bullets.forEach, on the player
PlayerHit(s, b) ==
  2 * 2 * ((b.x - s.player.x) * aspect * (b.x - s.player.x) * aspect
             + (b.y - s.player.y) * (b.y - s.player.y))
    < (s.player.size + 2 * b.size) * (s.player.size + 2 * b.size)
Destroyed(s) ==
  IF s.player.hp <= 0
    THEN [s EXCEPT !.game.isStageClear = FALSE,
                   !.timeouts = Append(@, [callback |-> "restart",
                                           due |-> 0])]
    ELSE s
RECURSIVE Wound(_, _, _)
Wound(s, k, len) ==
  IF k >= len THEN s
  ELSE IF k >= Len(s.bullets) THEN Wound(s, k + 1, len)
  ELSE IF PlayerHit(s, s.bullets[k + 1])
    THEN Wound(Destroyed([s EXCEPT !.player.hp = @ - 10,
                                   !.bullets = Splice(@, k)]),
               k + 1, len)
  ELSE Wound(s, k + 1, len)

\* update(deltaTime)
Advanced(s) ==
  [s EXCEPT !.bullets = MoveBullets(@, 0, Len(@)),
            !.moved = MoveBullets(s.bullets, 0, Len(s.bullets))]
Struck(s) == Strike(s, 0, Len(s.bullets))
Wounded(s) == Wound(s, 0, Len(s.bullets))
update(s, deltaTime) ==
  IF s.game.isStageClear THEN s
  ELSE Wounded(Struck(Advanced(
         Barriered(EnemyMoved(Waited(s, deltaTime), deltaTime), deltaTime))))

\* The time between two frames, the places the mouse puts the player, and
\* the bullets the model lets fly at a time.
DeltaTimes == {500}
PlayerXs == {500, 900}
MaxBullets == 2

\* The state after the script has run: loadStage(game.stage).
ShooterInit == shooter = loadStage(NewShooter, 0)

\* gameLoop(timestamp), deltaTime after the last frame; a timeout that is
\* due runs before the frame.
Passed(s, deltaTime) ==
  [s EXCEPT !.timeouts =
     [i \in 1..Len(@) |-> [@[i] EXCEPT !.due = @ - deltaTime]]]
ShooterFrame ==
  /\ \A i \in 1..Len(shooter.timeouts) : shooter.timeouts[i].due > 0
  /\ \E deltaTime \in DeltaTimes :
       shooter' = update(Passed(shooter, deltaTime), deltaTime)
  /\ UNCHANGED <<gameVars, traceVars, interactVars, refractVars>>

\* The listener of click
ShooterClick ==
  /\ Len(shooter.bullets) < MaxBullets
  /\ shooter' = [shooter EXCEPT
                   !.bullets = Append(@, [x |-> shooter.player.x,
                                          y |-> shooter.player.y - 30,
                                          vy |-> 0 - 20, size |-> 15])]
  /\ UNCHANGED <<gameVars, traceVars, interactVars, refractVars>>

\* The listener of mousemove
ShooterMouseMove ==
  /\ \E x \in PlayerXs :
       /\ x # shooter.player.x
       /\ shooter' = [shooter EXCEPT !.player.x = x]
  /\ UNCHANGED <<gameVars, traceVars, interactVars, refractVars>>

\* The callbacks of the timeouts of update: the next stage, the restart.
TimeoutCallback(s, callback) ==
  IF callback = "next"
    THEN loadStage([s EXCEPT !.game.stage = (@ + 1) % Len(stages)],
                   (s.game.stage + 1) % Len(stages))
    ELSE loadStage([s EXCEPT !.game.stage = 0], 0)
ShooterTimeout ==
  /\ \E i \in 1..Len(shooter.timeouts) :
       /\ shooter.timeouts[i].due <= 0
       /\ shooter' =
            TimeoutCallback([shooter EXCEPT !.timeouts = Splice(@, i - 1)],
                            shooter.timeouts[i].callback)
  /\ UNCHANGED <<gameVars, traceVars, interactVars, refractVars>>

ShooterNext ==
  \/ ShooterFrame
  \/ ShooterClick
  \/ ShooterMouseMove
  \/ ShooterTimeout

InitShooter == NoGame /\ NoTrace /\ NoInteract /\ NoRefract /\ ShooterInit
SpecShooter == InitShooter /\ [][ShooterNext]_vars

(***************************************************************************)
(* Properties of the game                                                  *)
(***************************************************************************)
Ticks == {hist.ticks[i] : i \in 1..Len(hist.ticks)}

\* C1: within one level handleLevelClear is called exactly once, in the
\* tick in which the gauge reaches 1 (so the gauge is at 1 exactly when the
\* level is cleared, and the call was made once), and while the level stays
\* cleared the gauge does not change.
C1_ClearedOnce ==
  /\ hist'.clears <= 1
  /\ game'.isLevelClear <=> hist'.clears = 1
  /\ game'.isLevelClear <=> Ge(game'.gaugeValue, N(1))
C1_Frozen ==
  game.isLevelClear /\ game'.isLevelClear
    => game'.gaugeValue = game.gaugeValue
C1 == [][C1_ClearedOnce /\ C1_Frozen]_vars
\* Level 1 is cleared and the gameLoop callback that was pending has run.
C1_Witness ==
  /\ game.isLevelClear /\ hist.clears = 1
  /\ game.gridLevel = 1 /\ frames = <<>> /\ timers # {}

\* C2: in a level without Target cells checkWinCondition is false whatever
\* the gauge, no tick sees the win condition hold, the gauge stays at 0 and
\* the level is not cleared.
GaugeValues == {R(k, 4) : k \in 0..4}
C2 ==
  pc = "started" /\ Len(game.targetCells) = 0 =>
    /\ \A v \in GaugeValues :
         ~checkWinCondition([game EXCEPT !.gaugeValue = v])
    /\ \A tick \in Ticks : ~tick.allTargetsHit
    /\ game.gaugeValue = N(0)
    /\ ~game.isLevelClear /\ hist.clears = 0
\* A tick of gameLoop in the level without Target.
C2_Witness ==
  /\ pc = "started" /\ Len(game.targetCells) = 0
  /\ game.gridLevel = 2 /\ Ticks # {} /\ ~game.dirty

\* C3: the gauge is between 0 and 1, and a tick with elapsed time >= 0
\* leaves it at min(1, gauge + FILL_RATE x elapsed) when the win condition
\* holds and at max(0, gauge - DECAY_RATE x elapsed) when it does not
\* (elapsed in seconds).
C3 ==
  /\ Ge(game.gaugeValue, N(0)) /\ Le(game.gaugeValue, N(1))
  /\ \A tick \in Ticks :
       Ge(tick.deltaTime, N(0)) =>
         LET elapsed == Div(tick.deltaTime, N(1000))
             up == Add(tick.gaugeBefore, Mul(R(3, 10), elapsed))
             down == Sub(tick.gaugeBefore, Mul(N(4), elapsed))
         IN  tick.gaugeAfter =
               IF tick.allTargetsHit
                 THEN (IF Gt(up, N(1)) THEN N(1) ELSE up)
                 ELSE (IF Lt(down, N(0)) THEN N(0) ELSE down)
\* A tick that fills the gauge and is clamped at 1.
C3_Witness ==
  \E tick \in Ticks :
    /\ tick.allTargetsHit /\ tick.gaugeAfter = N(1)
    /\ Gt(Add(tick.gaugeBefore,
              Mul(R(3, 10), Div(tick.deltaTime, N(1000)))), N(1))

\* C4: in a level with Targets, once a receive flag has been false at every
\* tick of a span longer than (gauge at the start of the span) /
\* GAUGE_DECAY_RATE seconds, the gauge is 0, and it is 0 for as long as a
\* flag is false at every tick.
C4 ==
  Len(game.targetCells) >= 1 /\ hist.spanOver => game.gaugeValue = N(0)
\* A tick at which such a span is over and the gauge comes down to 0.
C4_Witness ==
  /\ Len(game.targetCells) >= 1 /\ hist.spanOver
  /\ \E tick \in Ticks :
       /\ ~tick.allTargetsHit
       /\ Gt(tick.gaugeBefore, N(0)) /\ tick.gaugeAfter = N(0)
       /\ Lt(tick.deltaTime, N(250))

\* The win condition as a trace of the grid g.grid on fresh copies of
\* the beams g.initBeams leaves it (g: the game, or the record of a tick).
FreshWin(g) ==
  checkWinCondition(
    [g EXCEPT !.grid = TrackRays(ResetTargets(g.grid, g.targetCells),
                                 JsonCopy(g.initBeams)).grid])

\* C5 as stated: the win condition of every tick is evaluated on the flags
\* that a trace of the grid made in that tick produces.
C5_Stated == \A tick \in Ticks : tick.allTargetsHit = FreshWin(tick)
\* C5: every tick evaluates the win condition on the receive flags as the
\* last trace before it left them (all false in a level not traced yet);
\* when the tick starts with the grid not dirty these are the flags that a
\* trace of the grid produces; and whenever the grid is not dirty the flags
\* are those of a trace of the grid on fresh copies of the beams.
C5 ==
  /\ \A tick \in Ticks :
       /\ tick.allTargetsHit
            = (Len(tick.flags) > 0 /\ \A i \in 1..Len(tick.flags) : tick.flags[i])
       /\ ~tick.dirty => tick.allTargetsHit = FreshWin(tick)
  /\ pc = "started" /\ ~game.dirty => checkWinCondition(game) = FreshWin(game)
\* The first tick of a level that is solved as loaded: the grid is dirty,
\* the win condition is evaluated false, a trace would make it true.
C5_Witness ==
  \E tick \in Ticks : tick.dirty /\ ~tick.allTargetsHit /\ FreshWin(tick)


(***************************************************************************)
(* Properties of the cells and of trackRays                                *)
(***************************************************************************)
\* C6: TargetCell.interact returns, for every color and every entry point,
\* exactly one segment, which starts at the entry point, with terminate
\* true, and leaves the receive flag of the Target true.
C6 ==
  iDone /\ iCell.type = "Target" =>
    /\ Len(iOut.segments) = 1
    /\ iOut.segments[1].start = iArgs.start
    /\ iOut.terminate = TRUE
    /\ iOut.cell.receive = TRUE
\* A Target whose flag was false has been entered by a blue beam.
C6_Witness ==
  /\ iDone /\ iCell.type = "Target" /\ ~iCell.receive
  /\ iArgs.color = "blue" /\ iOut.cell.receive

\* C7: BlockCell.interact returns ([], false) for a beam of the color of the
\* Block and one segment at the entry point with terminate true for a beam
\* of any other color; a Block built without a color stops the beams of all
\* three colors.
C7 ==
  iDone /\ iCell.type = "Block" =>
    /\ iArgs.color = iCell.color =>
         iOut.segments = <<>> /\ iOut.terminate = FALSE
    /\ iArgs.color # iCell.color =>
         /\ Len(iOut.segments) = 1
         /\ iOut.segments[1].start = iArgs.start
         /\ iOut.terminate = TRUE
    /\ iCell = ParseCell(cB(ColorUndef)) /\ iArgs.color \in BeamColors =>
         iOut.terminate = TRUE
\* A yellow beam has passed a yellow Block.
C7_Witness ==
  /\ iDone /\ iCell = ParseCell(cB("yellow")) /\ iArgs.color = "yellow"
  /\ iOut.segments = <<>> /\ ~iOut.terminate

\* The beams, each beam without color made yellow.
Yellowed(beams) ==
  [i \in 1..Len(beams) |->
     IF beams[i].color = ColorUndef
       THEN [beams[i] EXCEPT !.color = "yellow"] ELSE beams[i]]
Paths(beams) == [i \in 1..Len(beams) |-> beams[i].path]
\* C8: trackRays traces a beam without color as it traces the same beam
\* declared yellow: same path, same end, same flags in the grid.
C8 ==
  tDone =>
    LET yellow == trackRays(tGrid, Yellowed(tBeams))
    IN  /\ Paths(tOut.beams) = Paths(yellow.beams)
        /\ tOut.ends = yellow.ends
        /\ tOut.grid = yellow.grid

\* Whether the cells on the line of the beam, from its starting cell on, are
\* Empty cells and then a Target, the k-th cell after the starting cell.
LineCell(beam, k) ==
  <<Add(beam.cell[1], Mul(N(k), beam.direction[1])),
    Add(beam.cell[2], Mul(N(k), beam.direction[2]))>>
StraightToTarget(grid, beam, k) ==
  /\ \A j \in 0..k : HasCell(grid, LineCell(beam, j)[1], LineCell(beam, j)[2])
  /\ \A j \in 0..(k - 1) :
       CellAt(grid, LineCell(beam, j)[1], LineCell(beam, j)[2]).type = "Empty"
  /\ CellAt(grid, LineCell(beam, k)[1], LineCell(beam, k)[2]).type = "Target"
\* The point at which a beam along an axis enters the k-th cell after its
\* starting cell.
EntryPoint(beam, k) ==
  IF beam.direction[1] = N(0)
    THEN <<beam.start[1], Add(beam.cell[2], N(k))>>
    ELSE <<Add(beam.cell[1], N(k)), beam.start[2]>>
\* C9: a beam that runs through Empty cells only and then enters a Target is
\* traced (when the call gets to it) to a path of exactly 2 points, its start
\* and the point at which it enters the Target, the trace ends at the
\* Target, and the receive flag of that Target is true afterwards.
C9 ==
  tDone =>
    \A i \in 1..Len(tOut.beams) : \A k \in 1..2 :
      StraightToTarget(tGrid, tBeams[i], k) =>
        /\ tOut.beams[i].path = <<tBeams[i].start, EntryPoint(tBeams[i], k)>>
        /\ tOut.ends[i] = "terminate"
        /\ CellAt(tOut.grid, LineCell(tBeams[i], k)[1],
                  LineCell(tBeams[i], k)[2]).receive
\* The 3x3 grid that is Empty but for a Target at the bottom of the centre
\* column, traced with one beam that enters the top of that column.
C9_Witness ==
  /\ tDone
  /\ tGrid = parseGrid(<< <<cE, cE, cE>>, <<cE, cE, cE>>, <<cE, cT, cE>> >>)
  /\ tBeams = JsonCopy(<<TopBeam(1, "yellow")>>)
  /\ Len(tOut.beams[1].path) = 2
  /\ tOut.grid[3][2].receive

\* C10: trackRays comes to an end for every grid and every beam with a
\* direction other than (0,0) that starts in a cell of the grid: each beam
\* leaves the grid, is stopped by a cell or uses up MAX_INTERACTIONS.
C10 ==
  tDone =>
    /\ ~tOut.threw
    /\ Len(tOut.ends) = Len(tBeams)
    /\ \A i \in 1..Len(tOut.ends) :
         tOut.ends[i] \in {"exit", "terminate", "budget"}

\* Whether the beam starts in an Empty cell on a line of Empty cells that has
\* a FixedMirror at each end, k1 cells ahead and k2 cells behind, and runs
\* along that line.
FacingMirrors(grid, beam, k1, k2) ==
  /\ beam.direction \in {<<N(0), N(1)>>, <<N(1), N(0)>>}
  /\ \A j \in (0 - k2)..k1 :
       HasCell(grid, LineCell(beam, j)[1], LineCell(beam, j)[2])
  /\ \A j \in (1 - k2)..(k1 - 1) :
       CellAt(grid, LineCell(beam, j)[1], LineCell(beam, j)[2]).type = "Empty"
  /\ CellAt(grid, LineCell(beam, k1)[1], LineCell(beam, k1)[2]).type
       = "FixedMirror"
  /\ CellAt(grid, LineCell(beam, 0 - k2)[1],
            LineCell(beam, 0 - k2)[2]).type = "FixedMirror"
\* C11: a beam that runs perpendicularly between two facing FixedMirrors with
\* only Empty cells between them is stopped by the interaction budget, without
\* an error, after exactly MAX_INTERACTIONS reflections: its path has
\* 1 + MAX_INTERACTIONS points, all but the first on the faces of the mirrors.
C11 ==
  tDone =>
    \A i \in 1..Len(tOut.beams) : \A k1 \in 1..2 : \A k2 \in 1..2 :
       FacingMirrors(tGrid, tBeams[i], k1, k2) =>
         /\ tOut.ends[i] = "budget"
         /\ Len(tOut.beams[i].path) = 1 + MAX_INTERACTIONS
         /\ \A n \in 2..Len(tOut.beams[i].path) :
              tOut.beams[i].path[n] \in
                {EntryPoint(tBeams[i], k1),
                 EntryPoint(tBeams[i], 1 - k2)}
         /\ tOut.grid = tGrid
C11_Witness ==
  /\ tDone
  /\ Len(tBeams) = 1
  /\ FacingMirrors(tGrid, tBeams[1], 1, 1)
  /\ tOut.ends = <<"budget">>
  /\ tOut.calls[1] > MAX_INTERACTIONS

\* The number of segments that the trace of beam i took from the cells: the
\* points of its path but the first and, after an exit, the last.
Segments(i) ==
  Len(tOut.beams[i].path) - 1 - (IF tOut.ends[i] = "exit" THEN 1 ELSE 0)
HasGlass(grid) ==
  \E y \in 1..Len(grid) : \E x \in 1..Len(grid[y]) :
     grid[y][x].type = "GlassBlock"
\* C12 as stated: no trace makes more than MAX_INTERACTIONS calls of interact.
C12_Stated ==
  tDone => \A i \in 1..Len(tOut.calls) : tOut.calls[i] <= MAX_INTERACTIONS
\* C12: the budget counts the segments the cells return, not the calls of
\* interact: a trace is stopped by the budget exactly when it has taken
\* MAX_INTERACTIONS segments or more, which only the segments of its last
\* call can exceed (a GlassBlock returns several); a call that returns no
\* segment is not counted.
C12 ==
  tDone =>
    \A i \in 1..Len(tOut.beams) :
       /\ tOut.ends[i] = "budget" <=> Segments(i) >= MAX_INTERACTIONS
       /\ Segments(i) <= MAX_INTERACTIONS
                         + (IF HasGlass(tGrid) THEN GlassMaxBounces ELSE 0)
       /\ tOut.calls[i] <= MAX_INTERACTIONS => Segments(i) <= tOut.calls[i]
                                                 \/ HasGlass(tGrid)
C12_Witness ==
  /\ tDone
  /\ \E i \in 1..Len(tOut.beams) :
       /\ tOut.ends[i] = "budget"
       /\ Segments(i) = MAX_INTERACTIONS
       /\ tOut.calls[i] > MAX_INTERACTIONS

\* The rotations of the cells of a grid.
RotationsOf(grid) ==
  [y \in 1..Len(grid) |-> [x \in 1..Len(grid[y]) |-> grid[y][x].rotation]]
\* The stored beams and the receive flags of g are those a trace of the grid
\* of g, with its present rotations, on fresh copies of the beams leaves.
Synced(g) ==
  /\ g.result = DrawnBeams(TrackRays(ResetTargets(g.grid, g.targetCells),
                                     JsonCopy(g.initBeams)).beams)
  /\ g.grid = TrackRays(ResetTargets(g.grid, g.targetCells),
                        JsonCopy(g.initBeams)).grid
\* C13: a step that changes the rotation of a cell of the grid retraces the
\* beams at once and leaves the grid not dirty; and whenever the grid is not
\* dirty - so at the start of every tick that checks the win condition
\* without a dirty grid - the stored beam paths and the receive flags are
\* those of a trace of the grid with its current rotations.
C13 ==
  [][/\ (game'.gridLevel = game.gridLevel
         /\ RotationsOf(game'.grid) # RotationsOf(game.grid))
          => ~game'.dirty /\ hist'.traces >= 1
     /\ pc' = "started" /\ ~game'.dirty => Synced(game')]_vars
C13_Witness ==
  /\ pc = "started" /\ game.isDragging /\ ~game.dirty /\ game.gridLevel = 1
  /\ hist.ticks = <<>> /\ hist.traces = 1
  /\ RotationsOf(game.grid)
       # RotationsOf(parseGrid(levels[game.gridLevel + 1].grid))
  /\ \A i \in 1..Len(game.targetCells) :
       game.grid[game.targetCells[i].y][game.targetCells[i].x].receive

\* The seven cell types parseGrid knows.
KnownTypes ==
  {"Empty", "Block", "GlassBlock", "Target", "FixedMirror",
   "RotatableMirror", "Cross"}
\* The cell spec at column x of the one row of the level that was loaded (the
\* grid tells which: parseGrid keeps the places).
LoadedFrom(level) == pc = "loaded" /\ game.grid = parseGrid(level.grid)
\* C14: a cell spec whose type is none of the seven known types is loaded as
\* an Empty cell, which answers every ray with ([], false); the load
\* completes: the game is running, dirty, and has requested its first frame.
C14 ==
  \A level \in LoadLevels :
     LoadedFrom(level) =>
       /\ game.isGameRunning /\ game.dirty /\ frames = <<"first">>
       /\ ~game.isLevelClear
       /\ Len(game.grid) = 1 /\ Len(game.grid[1]) = Len(level.grid[1])
       /\ \A x \in 1..Len(level.grid[1]) :
            level.grid[1][x].type \notin KnownTypes =>
              /\ game.grid[1][x] = EmptyCell
              /\ \A a \in [start : EntryPoints, direction : Directions,
                           normal : Normals, color : TraceColors] :
                   Interact(game.grid[1][x], a.start, a.direction, a.normal,
                            a.color)
                     = Result(<<>>, FALSE, game.grid[1][x])
C14_Witness ==
  /\ pc = "loaded" /\ game.isGameRunning
  /\ game.grid = parseGrid(<< <<CellSpec("Wall", ColorUndef, N(45)),
                                CellSpec("Wall", "red", N(30))>> >>)
  /\ game.grid = <<<<EmptyCell, EmptyCell>>>>

\* C15: a RotatableMirror or Cross whose spec gives a rotation of r degrees -
\* r = 0 included - is loaded with the rotation r * pi / 180; one whose spec
\* gives none is loaded with 45 degrees (RotatableMirror) or 0 (Cross).
C15 ==
  \A level \in LoadLevels :
     LoadedFrom(level) =>
       \A x \in 1..Len(level.grid[1]) :
          level.grid[1][x].type \in {"RotatableMirror", "Cross"} =>
            game.grid[1][x].rotation =
              IF level.grid[1][x].rotation # Undef
                THEN Div(level.grid[1][x].rotation, N(180))
                ELSE IF level.grid[1][x].type = "Cross" THEN N(0)
                                                        ELSE R(1, 4)
\* C16: FixedMirrorCell.interact answers with exactly one segment, starting at
\* the entry point, and terminate = false; the direction out has the normal
\* component of the direction in with the sign flipped, and the same length,
\* for every direction and every unit normal of a cell boundary.
C16 ==
  (iDone /\ iCell.type = "FixedMirror") =>
    /\ Len(iOut.segments) = 1
    /\ iOut.segments[1].start = iArgs.start
    /\ iOut.terminate = FALSE
    /\ NumEq(dot(iOut.segments[1].direction, iArgs.normal),
             Neg(dot(iArgs.direction, iArgs.normal)))
    /\ NumEq(dot(iOut.segments[1].direction, iOut.segments[1].direction),
             dot(iArgs.direction, iArgs.direction))
C16_Witness ==
  /\ iDone /\ iCell.type = "FixedMirror"
  /\ iArgs.direction = <<R(-3, 5), R(4, 5)>> /\ iArgs.normal = <<N(0), N(-1)>>
  /\ iOut.segments[1].direction = <<R(-3, 5), R(-4, 5)>>
\* C17: a red beam that enters a GlassBlock through a face, perpendicular to
\* it, gets exactly two segments from interact - the entry, at the point the
\* tracer passed, and the exit, on the opposite face and straight ahead - the
\* exit has the direction of the beam, and terminate is false.
C17 ==
  (iDone /\ iCell.type = "GlassBlock" /\ iArgs.color = "red") =>
    /\ Len(iOut.segments) = 2
    /\ iOut.terminate = FALSE
    /\ iOut.segments[1].start = iArgs.start
    /\ NumEq(dot(iOut.segments[2].start, iArgs.direction), R(1, 2))
    /\ NumEq(dot(iOut.segments[2].start,
                 <<iArgs.direction[2], iArgs.direction[1]>>),
             dot(iArgs.start, <<iArgs.direction[2], iArgs.direction[1]>>))
    /\ iOut.segments[2].direction = iArgs.direction
\* The same for the calls whose normal is the one of the face entered, turned
\* against the beam.
C17_Facing ==
  (iArgs.normal = <<Neg(iArgs.direction[1]), Neg(iArgs.direction[2])>>) => C17
\* Whether the beam runs downwards through Empty cells only and then meets, in
\* the k-th cell after its starting cell, a RotatableMirror turned by 45
\* degrees (a quarter of pi).
MirrorAhead(grid, beam, k) ==
  /\ beam.direction = <<N(0), N(1)>>
  /\ \A j \in 0..k : HasCell(grid, LineCell(beam, j)[1], LineCell(beam, j)[2])
  /\ \A j \in 0..(k - 1) :
       CellAt(grid, LineCell(beam, j)[1], LineCell(beam, j)[2]).type = "Empty"
  /\ CellAt(grid, LineCell(beam, k)[1], LineCell(beam, k)[2]).type
       = "RotatableMirror"
  /\ CellAt(grid, LineCell(beam, k)[1], LineCell(beam, k)[2]).rotation
       = R(1, 4)
\* The point of the beam's line on the mirror, seen from the centre of the
\* mirror's cell: the mirror is the diagonal y = x of the cell.
MirrorPoint(beam) ==
  <<Sub(Sub(beam.start[1], beam.cell[1]), R(1, 2)),
    Sub(Sub(beam.start[1], beam.cell[1]), R(1, 2))>>
\* The position trackRays passes to interact for the k-th cell on the line.
MirrorEntry(beam, k) ==
  IF k = 0
    THEN <<Sub(Sub(beam.start[1], beam.cell[1]), R(1, 2)),
           Sub(Sub(beam.start[2], beam.cell[2]), R(1, 2))>>
    ELSE <<Sub(Sub(beam.start[1], beam.cell[1]), R(1, 2)), R(-1, 2)>>
\* C18: a downward beam that meets a RotatableMirror turned by 45 degrees
\* gets one segment from interact, with terminate = false, that starts on the
\* mirror segment (where the beam's line crosses it) and has the direction
\* (1, 0) or (-1, 0); the tracer adds that point to the path and goes on from
\* it along the row, in that direction.
C18 ==
  tDone =>
    \A i \in 1..Len(tOut.beams) : \A k \in 0..2 :
      MirrorAhead(tGrid, tBeams[i], k) =>
        LET out == Interact(CellAt(tGrid, LineCell(tBeams[i], k)[1],
                                   LineCell(tBeams[i], k)[2]),
                            MirrorEntry(tBeams[i], k), tBeams[i].direction,
                            <<N(0), N(1)>>, tBeams[i].color)
            hit == <<tBeams[i].start[1],
                     Add(Add(Add(tBeams[i].cell[2], N(k)), R(1, 2)),
                         MirrorPoint(tBeams[i])[2])>>
        IN  /\ Len(out.segments) = 1 /\ out.terminate = FALSE
            /\ out.segments[1].start = MirrorPoint(tBeams[i])
            /\ Le(MathAbs(Mul(MirrorPoint(tBeams[i])[1], MathSqrt(N(2)))),
                  R(1, 2))
            /\ out.segments[1].direction \in {<<N(1), N(0)>>, <<N(-1), N(0)>>}
            /\ Len(tOut.beams[i].path) >= 3
            /\ tOut.beams[i].path[2] = hit
            /\ tOut.beams[i].path[3][2] = hit[2]
            /\ Sgn(Sub(tOut.beams[i].path[3][1], hit[1]))
                 = Sgn(out.segments[1].direction[1])
\* The 3x3 grid with the mirror in the centre and a Target to its right,
\* traced with one beam that enters the top of the centre column.
C18_Witness ==
  /\ tDone
  /\ tGrid = parseGrid(<< <<cE, cE, cE>>, <<cE, cM(N(45)), cT>>,
                          <<cE, cE, cE>> >>)
  /\ tBeams = JsonCopy(<<TopBeam(1, "red")>>)
  /\ tOut.beams[1].path
       = <<tBeams[1].start, <<R(3, 2), R(3, 2)>>, <<N(2), R(3, 2)>> >>
  /\ tOut.ends = <<"terminate">>
  /\ tOut.grid[2][3].receive
\* C19: CrossCell.interact answers ([], false) to every ray of unit direction
\* whose line passes farther than 0.5 from the centre of the cell, whatever
\* the rotation and the width; and a Cross of width 0 answers every ray whose
\* line goes through the centre with one segment and terminate = true,
\* whatever the rotation.
C19 ==
  (iDone /\ iCell.type = "Cross") =>
    /\ Gt(MathAbs(perpendicular_dist(iArgs.start, iArgs.direction)), R(1, 2))
         => iOut = Result(<<>>, FALSE, iCell)
    /\ (perpendicular_dist(iArgs.start, iArgs.direction) = N(0)
          /\ iCell.width = N(0))
         => /\ iOut.terminate = TRUE
            /\ Len(iOut.segments) = 1
            /\ iOut.segments[1].direction = iArgs.direction
\* A Cross of width 0 turned by 45 degrees, and the ray that enters the cell
\* at the middle of its top face, going down: it is stopped on the circle.
C19_Witness ==
  /\ iDone
  /\ iCell = CrossCell(R(1, 4), N(0))
  /\ iArgs.start = <<N(0), R(-1, 2)>> /\ iArgs.direction = <<N(0), N(1)>>
  /\ iOut.terminate = TRUE
  /\ iOut.segments = <<Seg(<<N(0), R(-1, 2)>>, <<N(0), N(1)>>)>>
\* A Cross of the width of the constructor and a ray that misses the circle.
C19_Far ==
  /\ iDone
  /\ iCell = CrossCell(R(1, 4), Undef)
  /\ iArgs.start = <<R(-3, 5), R(-1, 2)>> /\ iArgs.direction = <<N(0), N(1)>>
  /\ iOut = Result(<<>>, FALSE, iCell)
\* C20 as stated: with n1 < n2 and unit vectors, a ray at grazing incidence
\* (90 degrees to the normal) is answered with isReflecting = true.
C20_Stated ==
  (rOut # <<>> /\ Lt(rArgs.n1, rArgs.n2)
     /\ dot(rArgs.normalVec, rArgs.incidentVec) = N(0)) => rOut[2] = TRUE
\* C20: refract answers isReflecting = true exactly when
\* (n1/n2)^2 * (1 - cos_i^2) > 1, and then with the reflected vector; with
\* unit vectors and n1 < n2 that is never the case, at any angle of incidence
\* up to grazing: the ray is refracted, isReflecting = false.
C20 ==
  rOut # <<>> =>
    /\ rOut[2] = Gt(sin_t2(rArgs), N(1))
    /\ rOut[2] => rOut[1] = reflect(rArgs.incidentVec, rArgs.normalVec)
    /\ Lt(rArgs.n1, rArgs.n2) => rOut[2] = FALSE
\* Grazing incidence from index 3 into index 5: refracted to the angle whose
\* sine is 3/5.
C20_Witness ==
  /\ rOut # <<>>
  /\ rArgs.n1 = N(3) /\ rArgs.n2 = N(5)
  /\ rArgs.incidentVec = <<N(1), N(0)>>
  /\ rOut = << <<R(3, 5), R(4, 5)>>, FALSE >>
\* Total internal reflection, from index 3/2 into index 1 at 45 degrees.
C20_Reflecting ==
  /\ rOut # <<>>
  /\ rArgs.n1 = R(3, 2) /\ rArgs.n2 = N(1)
  /\ rArgs.incidentVec[1] = rArgs.incidentVec[2]
  /\ rOut[2] = TRUE
  /\ rOut[1] = <<rArgs.incidentVec[1], Neg(rArgs.incidentVec[2])>>
\* Whether the traced beam ends in the cell at column x of row y: the last
\* point of its path is a point of that cell (the beams of the levels run
\* along the middle of the rows and columns, so the point is on no corner).
Reached(beam, x, y) ==
  /\ Len(beam.path) >= 2
  /\ Ge(beam.path[Len(beam.path)][1], N(x - 1))
  /\ Le(beam.path[Len(beam.path)][1], N(x))
  /\ Ge(beam.path[Len(beam.path)][2], N(y - 1))
  /\ Le(beam.path[Len(beam.path)][2], N(y))
\* C21: after a step in which updateAndRender traced the beams, the receive
\* flag of every Target of the grid is true exactly when one of the beams of
\* the result of the last pass ends in that Target: no flag is left over from
\* an earlier pass.
C21 ==
  (pc = "started" /\ hist.traces >= 1) =>
    \A y \in 1..Len(game.grid) : \A x \in 1..Len(game.grid[y]) :
      game.grid[y][x].type = "Target" =>
        (game.grid[y][x].receive
           <=> \E i \in 1..Len(game.result) : Reached(game.result[i], x, y))
\* A drag has turned the mirror away from a Target that was lit before (the
\* gauge had started to fill): the pass of the drag leaves its flag false.
C21_Witness ==
  /\ pc = "started" /\ hist.traces >= 1 /\ game.isDragging
  /\ Gt(game.gaugeValue, N(0))
  /\ Len(game.targetCells) >= 1
  /\ \A i \in 1..Len(game.targetCells) :
       ~game.grid[game.targetCells[i].y][game.targetCells[i].x].receive
\* C22: a drag writes rotations only to cells of the grid the game holds: no
\* step writes the angle of a drag to the cell of a grid that a level load
\* has replaced (hist.staleWrite records such a write by the last step).
C22 == ~hist.staleWrite
\* C23: the beams the game keeps from the level definition are, at any time,
\* the beams of that definition - same start, direction, cell and color, and
\* no path - and the beams stored by a step that traced are the trace of
\* fresh copies of them (each path starts at the start of its beam).
C23 ==
  pc = "started" =>
    /\ game.initBeams = levels[game.gridLevel + 1].beams
    /\ \A i \in 1..Len(game.initBeams) : game.initBeams[i].path = <<>>
    /\ hist.traces >= 1 =>
         game.result
           = DrawnBeams(TrackRays(ResetTargets(game.grid, game.targetCells),
                                  JsonCopy(levels[game.gridLevel + 1].beams))
                          .beams)
\* The second level, after ticks and a drag that has turned its mirror: the
\* last step retraced, the stored beams have paths, the templates have none.
C23_Witness ==
  /\ pc = "started" /\ game.gridLevel = 1 /\ hist.traces >= 1
  /\ Gt(game.gaugeValue, N(0))
  /\ RotationsOf(game.grid)
       # RotationsOf(parseGrid(levels[game.gridLevel + 1].grid))
  /\ \A i \in 1..Len(game.result) : Len(game.result[i].path) >= 2
  /\ \A i \in 1..Len(game.initBeams) : game.initBeams[i].path = <<>>
\* The step of the timeout of handleLevelClear: the index of the level goes
\* up by exactly 1; when there is a next level it is loaded - gauge 0, not
\* cleared, running, grid and Targets built from its definition - and when
\* there is none the grid stays and the game stays not running.
C24_Advance ==
  game'.currentLevelIndex # game.currentLevelIndex =>
    /\ game.isLevelClear /\ ~game.isGameRunning
    /\ game'.currentLevelIndex = game.currentLevelIndex + 1
    /\ IF game'.currentLevelIndex < Len(game.levels)
         THEN /\ game'.gaugeValue = N(0)
              /\ ~game'.isLevelClear /\ game'.isGameRunning
              /\ game'.grid
                   = parseGrid(game.levels[game'.currentLevelIndex + 1].grid)
              /\ game'.targetCells = findTargetCells(game'.grid)
              /\ game'.gridLevel = game'.currentLevelIndex
         ELSE /\ game'.grid = game.grid
              /\ ~game'.isGameRunning
C24_Next(k) ==
  /\ game.currentLevelIndex = k + 1
  /\ k + 1 < Len(game.levels) => game.gridLevel = k + 1
  /\ k + 1 >= Len(game.levels) => ~game.isGameRunning
\* C24: once a level is cleared the index of the level eventually goes up,
\* by the step described above; and after the last level nothing is loaded
\* and the game is never running again.
C24 ==
  /\ [][C24_Advance]_vars
  /\ \A k \in 0..1 :
       (game.isLevelClear /\ game.currentLevelIndex = k) ~> C24_Next(k)
  /\ [](game.currentLevelIndex >= Len(game.levels) => ~game.isGameRunning)
\* The last level has been cleared and its timeout has run.
C24_Witness ==
  /\ pc = "started" /\ game.currentLevelIndex = Len(game.levels)
  /\ game.gridLevel = 1 /\ game.isLevelClear /\ ~game.isGameRunning
  /\ timers = {}

\* C25: a drag start at a canvas position that maps outside the grid (row or
\* column out of range) is ignored: the listener does not end with an
\* exception, and isDragging, draggedMirror and the rotation of every cell
\* are as they were before.
C25 ==
  [][hist'.startOutside =>
       /\ ~hist'.threw
       /\ game'.isDragging = game.isDragging
       /\ game'.draggedMirror = game.draggedMirror
       /\ RotationsOf(game'.grid) = RotationsOf(game.grid)]_vars

\* C26: at any time at most one frame callback of the game loop is scheduled,
\* and a frame runs the game loop at most once, also across a level clear and
\* the load of the next level.
C26 == Len(frames) <= 1 /\ Len(hist.ticks) <= 1

(***************************************************************************)
(* Properties of the shooter                                               *)
(***************************************************************************)
\* The bullet b, as the second loop of an update found it, is among the
\* bullets after the update, with its vy reversed if it was moving upward.
Kept(b) ==
  \E j \in 1..Len(shooter'.bullets) :
     shooter'.bullets[j] = IF b.vy < 0 THEN [b EXCEPT !.vy = 0 - @] ELSE b
InHitRange(b) == NearEnemy(shooter', b, 0)
\* A frame whose update runs: the stage is not clear.
UpdateRuns == ShooterFrame /\ ~shooter.game.isStageClear

\* C27: in an update that leaves the barrier active the enemy keeps its hp,
\* and every bullet in contact range of the barrier stays in the array, with
\* vy reversed if it was moving upward; when the enemy loses hp the barrier
\* is not active and the loss is 10 for each of some bullets in hit range.
C27 ==
  [][UpdateRuns =>
       /\ shooter'.enemy.barrierState = "active" =>
            /\ shooter'.enemy.hp = shooter.enemy.hp
            /\ \A i \in 1..Len(shooter'.moved) :
                 NearEnemy(shooter', shooter'.moved[i], 40)
                   => Kept(shooter'.moved[i])
       /\ shooter'.enemy.hp # shooter.enemy.hp =>
            /\ shooter'.enemy.barrierState # "active"
            /\ \E n \in 1..Cardinality({i \in 1..Len(shooter'.moved) :
                                          InHitRange(shooter'.moved[i])}) :
                  shooter'.enemy.hp = shooter.enemy.hp - 10 * n]_vars
\* The barrier is active, a bullet that came up into its range has been
\* turned back by the last update, and the enemy has been hit before.
C27_Witness ==
  /\ shooter.enemy.barrierState = "active"
  /\ shooter.enemy.hp < shooter.enemy.maxHp
  /\ \E i \in 1..Len(shooter.moved) :
       /\ shooter.moved[i].vy < 0
       /\ NearEnemy(shooter, shooter.moved[i], 40)
       /\ \E j \in 1..Len(shooter.bullets) :
            shooter.bullets[j] = [shooter.moved[i] EXCEPT !.vy = 20]

\* The bullet b advanced by its vy; b is on the screen.
Flown(b) == [b EXCEPT !.y = @ + b.vy]
OnScreen(b) == b.y >= 0 /\ b.y <= 1000

\* C28: the first loop of an update that runs advances every bullet by its
\* vy once and removes exactly those whose y has left [0, 1].
C28 ==
  [][UpdateRuns =>
       shooter'.moved =
         SelectSeq([i \in 1..Len(shooter.bullets) |->
                      Flown(shooter.bullets[i])], OnScreen)]_vars

\* C29: while the barrier is preparing or active the command that executes
\* is BARRIER, and a loadStage leaves the barrier state "none".
C29 ==
  /\ [](shooter.enemy.barrierState \in {"preparing", "active"}
          => shooter.executing = "BARRIER")
  /\ [][ShooterTimeout => shooter'.enemy.barrierState = "none"]_vars

====
